---- MODULE Spec2Model ----
(***************************************************************************)
(* State-machine model of the call-coordination primitives of              *)
(* @pistonite/pure (sync): serial, once, latest, debounce and batch.       *)
(*                                                                         *)
(* JavaScript runs one job at a time, so every action below is one         *)
(* synchronous stretch of code: an invoke up to its first await, the       *)
(* continuation after an awaited promise settles, or a timer callback.     *)
(* The wrapped fn (and the user callbacks batch / unbatch) are opaque:     *)
(* when they complete and with which outcome is an input of the action.    *)
(* Each primitive has its own specification (SpecSerial, SpecOnce, ...);   *)
(* in it the variables of the other primitives stay at their initial       *)
(* values.                                                                 *)
(***************************************************************************)
EXTENDS Integers, Sequences, FiniteSets, TLC

VARIABLES
    \* ---- serial (SerialImpl) ----
    serial,        \* SerialImpl.serial
    sRounds,       \* one record per invoke: the locals of that invoke
    onCancelLog,   \* the calls made to onCancel, in order
    \* ---- once (OnceImpl) ----
    oncePromise,   \* OnceImpl.promise: Undefined or the outcome of the promise
    onceFnCalls,   \* the argument tuples fn was called with, in order
    onceCalls,     \* one record per invoke
    \* ---- latest (LatestImpl) ----
    lUseEq,        \* configuration: was areArgsEqual supplied?
    lPending,      \* LatestImpl.pending: 0 (undefined) or the id of the promise
    lPromises,     \* the outcome of every promise made by makePromise
    lCurrentArgs,  \* LatestImpl.currentArgs
    lNextArgs,     \* LatestImpl.nextArgs
    lMiddleArgs,   \* LatestImpl.middleArgs
    lError,        \* local `error` of the invoke that runs the loop
    lResult,       \* local `result` of the invoke that runs the loop
    lRounds,       \* one record per call of fn
    lCalls,        \* one record per invoke, with its call of updateArgs
    lLastUpdate,   \* the arguments of the most recent call of updateArgs
    \* ---- debounce (Debounce) ----
    dDisregard,    \* configuration: Debounce.disregardExecutionTime
    dInterval,     \* configuration: Debounce.interval
    dIdle,         \* Debounce.idle
    dNext,         \* Debounce.next: NoNext or [args, promise]
    dPromises,     \* the outcome of every promise made by makePromise
    dExecs,        \* one record per call of execute: its locals and its timer
    dCalls,        \* one record per invoke
    \* ---- batch (BatchImpl) ----
    bDisregard,    \* configuration: BatchImpl.disregardExecutionTime
    bUnbatch,      \* configuration: was unbatch supplied?
    bIdle,         \* BatchImpl.idle
    bScheduled,    \* BatchImpl.scheduled: sequence of [input, promise]
    bPromises,     \* every promise made by makePromise: outcome and settle count
    bExecs,        \* one record per call of execute: its locals and its timer
    bCalls,        \* one record per invoke
    bBatchLog,     \* the calls made to batch, in order
    bUnbatchLog,   \* the calls made to unbatch, in order
    \* ---- RwLock ----
    rwWriterActive,    \* writerActive: is a write guard held?
    rwActiveReaders,   \* activeReaderCount: the number of read guards held
    rwQueue,           \* the FIFO queue of waiting requests: [client, kind]
    rwClients,         \* per client: its request and how far it has got
    \* ---- Erc (makeErcType) ----
    ercValue,      \* erc.value: ErcUndefined or the value held
    ercWeakRef,    \* local weakRef of createStrongRef: 0 or the index of a weak
    ercWeaks,      \* weak.value of every weak reference made, in order
    ercFreeLog,    \* the values the external free was called with, in order
    ercAddRefLog,  \* the values the external addRef was called with, in order
    ercGiven,      \* the values given to the Erc (constructor and assign)
    ercLog         \* one record per operation on the Erc or on its weaks

serialVars == <<serial, sRounds, onCancelLog>>
onceVars == <<oncePromise, onceFnCalls, onceCalls>>
latestVars == <<lUseEq, lPending, lPromises, lCurrentArgs, lNextArgs,
                lMiddleArgs, lError, lResult, lRounds, lCalls, lLastUpdate>>
debVars == <<dDisregard, dInterval, dIdle, dNext, dPromises, dExecs, dCalls>>
batchVars == <<bDisregard, bUnbatch, bIdle, bScheduled, bPromises, bExecs,
               bCalls, bBatchLog, bUnbatchLog>>
rwVars == <<rwWriterActive, rwActiveReaders, rwQueue, rwClients>>
ercVars == <<ercValue, ercWeakRef, ercWeaks, ercFreeLog, ercAddRefLog,
             ercGiven, ercLog>>
vars == <<serialVars, onceVars, latestVars, debVars, batchVars, rwVars,
          ercVars>>

(***************************************************************************)
(* Bounds and input sets                                                   *)
(***************************************************************************)
MaxSerialInvokes == 3
MaxChecks == 2
MaxOnceInvokes == 4
MaxLatestInvokes == 4
MaxDebInvokes == 4
MaxBatchInvokes == 4
\* invokes made on a debounce and a batch instance of one program, in all
MaxBothInvokes == 3
\* the number of clients of the lock; each requests, holds and releases
\* guards again and again
NumRwClients == 3
\* the number of operations followed on one Erc and its weak references
MaxErcOps == 4

\* argument tuples a caller may pass
Args == {"a", "b"}
\* serial passes the arguments through to the body and never looks at them
SerialArgs == {"a"}
\* debounce and batch never look at the arguments either: the i-th invoke of
\* an instance passes the argument i, so that the arguments fn is called with
\* tell which invoke they came from
FreshArgs(calls) == {Len(calls) + 1}
\* values the wrapped fn may resolve to
Vals == {"x", "y"}
\* values the wrapped fn may throw / reject with
Errs == {"e1"}

(***************************************************************************)
(* Outcomes of promises                                                    *)
(***************************************************************************)
Pending == [kind |-> "pending", v |-> "-"]
Ok(v) == [kind |-> "ok", v |-> v]
Err(e) == [kind |-> "err", v |-> e]
\* the outcomes an execution of fn can have
FnOutcomes == {Ok(v) : v \in Vals} \cup {Err(e) : e \in Errs}

\* the value of an unset optional field
Undefined == [kind |-> "undefined", v |-> "-"]

\* s with its i-th element replaced by x
SetAt(s, i, x) == [s EXCEPT ![i] = x]

\* the largest element of a non-empty set of numbers
Max(S) == CHOOSE x \in S : \A y \in S : y <= x

(***************************************************************************)
(* serial                                                                  *)
(***************************************************************************)
\* what the promise returned by SerialImpl.invoke settles with
SerVal(v) == [kind |-> "val", v |-> v]
SerCancel == [kind |-> "cancel", v |-> "-"]
SerThrow(e) == [kind |-> "throw", v |-> e]
\* the Error("cancelled") thrown by checkCancel
CancelledError == "cancelled"

\* a bug SerialInit could have: the serial number starts at 1n
SerialInit_FromOne ==
    /\ serial = 1
    /\ sRounds = <<>>
    /\ onCancelLog = <<>>

SerialInit ==
    /\ serial = 0
    /\ sRounds = <<>>
    /\ onCancelLog = <<>>

\* has a newer invoke been issued since the invoke of round r? (History kept
\* with the rounds: supersededAtEnd is its value when the body ended,
\* supersededAtFinish when invoke resumed after the await.)
Superseded(r) == r < Len(sRounds)

\* checkCancel of round r: does it throw?
CheckCancelThrows(r) == sRounds[r].currentSerial # serial

\* checkCancel of round r: the round's `cancelled` local afterwards
CancelledAfterCheck(r) ==
    IF CheckCancelThrows(r) THEN TRUE ELSE sRounds[r].cancelled

\* a bug LogAfterCheck could have: the `cancelled` flag is not consulted
LogAfterCheck_NoFlag(r) ==
    IF CheckCancelThrows(r)
    THEN Append(onCancelLog, <<sRounds[r].currentSerial, serial>>)
    ELSE onCancelLog

\* checkCancel of round r: the onCancel calls afterwards
LogAfterCheck(r) ==
    IF CheckCancelThrows(r) /\ ~sRounds[r].cancelled
    THEN Append(onCancelLog, <<sRounds[r].currentSerial, serial>>)
    ELSE onCancelLog

\* the number of checkCancel calls by bodies that threw, over all rounds
RECURSIVE TotalChecks(_)
TotalChecks(rounds) ==
    IF rounds = <<>> THEN 0 ELSE Head(rounds).checks + TotalChecks(Tail(rounds))

\* a bug SerialInvoke could have: currentSerial = this.serial++
SerialInvoke_PostIncrement(a) ==
    /\ Len(sRounds) < MaxSerialInvokes
    /\ serial' = serial + 1
    /\ sRounds' = Append(sRounds,
          [args |-> a, currentSerial |-> serial, cancelled |-> FALSE,
           st |-> "running", body |-> Pending, ret |-> Pending,
           checks |-> 0, supersededAtEnd |-> FALSE,
           supersededAtFinish |-> FALSE])
    /\ UNCHANGED onCancelLog

\* a bug SerialInvoke could have: the serial number is not advanced
SerialInvoke_NoIncrement(a) ==
    /\ Len(sRounds) < MaxSerialInvokes
    /\ serial' = serial
    /\ sRounds' = Append(sRounds,
          [args |-> a, currentSerial |-> serial, cancelled |-> FALSE,
           st |-> "running", body |-> Pending, ret |-> Pending,
           checks |-> 0, supersededAtEnd |-> FALSE,
           supersededAtFinish |-> FALSE])
    /\ UNCHANGED onCancelLog

\* invoke(...args) up to the await of the body
SerialInvoke(a) ==
    /\ Len(sRounds) < MaxSerialInvokes
    /\ serial' = serial + 1
    /\ sRounds' = Append(sRounds,
          [args |-> a, currentSerial |-> serial + 1, cancelled |-> FALSE,
           st |-> "running", body |-> Pending, ret |-> Pending,
           checks |-> 0, supersededAtEnd |-> FALSE,
           supersededAtFinish |-> FALSE])
    /\ UNCHANGED onCancelLog

\* the body of round r calls checkCancel(); when it throws the body either
\* lets the error propagate (the body ends with it) or catches it and goes on.
\* checks counts the calls that threw (a call that does not throw changes
\* nothing); MaxChecks caps their number over all rounds
SerialBodyCheck(r, propagate) ==
    /\ r \in 1..Len(sRounds)
    /\ sRounds[r].st = "running"
    /\ CheckCancelThrows(r) => TotalChecks(sRounds) < MaxChecks
    /\ onCancelLog' = LogAfterCheck(r)
    /\ sRounds' = SetAt(sRounds, r,
          [sRounds[r] EXCEPT
              !.cancelled = CancelledAfterCheck(r),
              !.checks = IF CheckCancelThrows(r) THEN @ + 1 ELSE @,
              !.st = IF CheckCancelThrows(r) /\ propagate THEN "completed" ELSE @,
              !.body = IF CheckCancelThrows(r) /\ propagate
                       THEN Err(CancelledError) ELSE @,
              !.supersededAtEnd =
                  CheckCancelThrows(r) /\ propagate /\ Superseded(r)])
    /\ UNCHANGED serial

\* the body of round r ends by itself: it returns a value or throws
SerialBodyEnd(r, out) ==
    /\ r \in 1..Len(sRounds)
    /\ sRounds[r].st = "running"
    /\ sRounds' = SetAt(sRounds, r,
          [sRounds[r] EXCEPT
              !.st = "completed",
              !.body = out,
              !.supersededAtEnd = Superseded(r)])
    /\ UNCHANGED <<serial, onCancelLog>>

\* a bug SerialResult could have: the catch block always rethrows
SerialResult_NoSuppress(r) ==
    IF sRounds[r].body.kind = "ok"
    THEN IF CheckCancelThrows(r) THEN SerCancel ELSE SerVal(sRounds[r].body.v)
    ELSE SerThrow(sRounds[r].body.v)

\* a bug SerialResult could have: no checkCancel() before the return
SerialResult_NoFinalCheck(r) ==
    IF sRounds[r].body.kind = "ok"
    THEN SerVal(sRounds[r].body.v)
    ELSE IF sRounds[r].currentSerial # serial
         THEN SerCancel ELSE SerThrow(sRounds[r].body.v)

\* what invoke returns once the awaited body has settled
SerialResult(r) ==
    IF sRounds[r].body.kind = "ok"
    THEN \* checkCancel(); return { val: result }
         IF CheckCancelThrows(r) THEN SerCancel ELSE SerVal(sRounds[r].body.v)
    ELSE \* catch (e)
         IF sRounds[r].currentSerial # serial
         THEN SerCancel ELSE SerThrow(sRounds[r].body.v)

\* the continuation of invoke after `await fn(checkCancel, currentSerial)(...args)`
SerialFinish(r) ==
    /\ r \in 1..Len(sRounds)
    /\ sRounds[r].st = "completed"
    /\ onCancelLog' =
          IF sRounds[r].body.kind = "ok" THEN LogAfterCheck(r) ELSE onCancelLog
    /\ sRounds' = SetAt(sRounds, r,
          [sRounds[r] EXCEPT
              !.st = "settled",
              !.cancelled = IF sRounds[r].body.kind = "ok"
                            THEN CancelledAfterCheck(r) ELSE @,
              !.supersededAtFinish = Superseded(r),
              !.ret = SerialResult(r)])
    /\ UNCHANGED serial

(***************************************************************************)
(* once                                                                    *)
(***************************************************************************)
OnceInit ==
    /\ oncePromise = Undefined
    /\ onceFnCalls = <<>>
    /\ onceCalls = <<>>

\* a bug OnceInvoke could have: the promise is reused only while it is
\* pending, so an invoke after it settled runs fn again
OnceInvoke_RerunAfterSettled(a) ==
    /\ Len(onceCalls) < MaxOnceInvokes
    /\ IF oncePromise = Pending
       THEN /\ onceCalls' = Append(onceCalls,
                 [args |-> a, at |-> "during", ret |-> oncePromise])
            /\ UNCHANGED <<oncePromise, onceFnCalls>>
       ELSE /\ oncePromise' = Pending
            /\ onceFnCalls' = Append(onceFnCalls, a)
            /\ onceCalls' = Append(onceCalls,
                 [args |-> a, at |-> "first", ret |-> Pending])

\* invoke(...args): return this.promise when set; otherwise create it and
\* call fn (the call runs up to `await this.fn(...args)`); at tells when the
\* invoke came: first, during the execution of fn, or after it settled
OnceInvoke(a) ==
    /\ Len(onceCalls) < MaxOnceInvokes
    /\ IF oncePromise # Undefined
       THEN /\ onceCalls' = Append(onceCalls,
                 [args |-> a,
                  at |-> IF oncePromise = Pending THEN "during" ELSE "after",
                  ret |-> oncePromise])
            /\ UNCHANGED <<oncePromise, onceFnCalls>>
       ELSE /\ oncePromise' = Pending
            /\ onceFnCalls' = Append(onceFnCalls, a)
            /\ onceCalls' = Append(onceCalls,
                 [args |-> a, at |-> "first", ret |-> Pending])

\* a bug OnceSettle could have: the catch block rethrows without reject(e),
\* so only the first caller sees a failure
OnceSettle_NoReject(c, out) ==
    IF c.ret = Pending /\ (c.at = "first" \/ out.kind = "ok")
    THEN [c EXCEPT !.ret = out] ELSE c

\* the outcome of call c once fn settled with out: the first call returns
\* result / rethrows e, the others follow this.promise
OnceSettle(c, out) == IF c.ret = Pending THEN [c EXCEPT !.ret = out] ELSE c

\* the continuation after `await this.fn(...args)`: resolve(result) or reject(e)
OnceFnDone(out) ==
    /\ oncePromise = Pending
    /\ oncePromise' = out
    /\ onceCalls' = [i \in 1..Len(onceCalls) |-> OnceSettle(onceCalls[i], out)]
    /\ UNCHANGED onceFnCalls

(***************************************************************************)
(* latest                                                                  *)
(***************************************************************************)
\* JavaScript's undefined, where an argument tuple, a value or an error may be
NoValue == "undefined"
\* an error value that is falsy in JavaScript (Promise.reject(), throw 0, ...)
FalsyErr == "e0"
LatestErrs == Errs \cup {FalsyErr}
LatestOutcomes == {Ok(v) : v \in Vals} \cup {Err(e) : e \in LatestErrs}

\* the truthiness test of `if (error)`
Truthy(e) == e # NoValue /\ e # FalsyErr

\* no call of updateArgs: the value of lLastUpdate before the first call, and
\* of the record of an invoke that found the instance idle
NoUpdate == [current |-> NoValue, middle |-> <<>>, latest |-> NoValue,
             next |-> NoValue]

LatestFields ==
    /\ lPending = 0
    /\ lPromises = <<>>
    /\ lCurrentArgs = NoValue
    /\ lNextArgs = NoValue
    /\ lMiddleArgs = <<>>
    /\ lError = NoValue
    /\ lResult = NoValue
    /\ lRounds = <<>>
    /\ lCalls = <<>>
    /\ lLastUpdate = NoUpdate

\* a latest instance, with or without areArgsEqual
LatestInit == LatestFields /\ lUseEq \in BOOLEAN
\* the instance the other specifications leave untouched
LatestIdle == LatestFields /\ lUseEq = FALSE

\* a bug AreArgsEqual could have: the supplied comparison is ignored
AreArgsEqual_Never(a, b) == FALSE

\* this.areArgsEqual: the supplied comparison, or () => false
AreArgsEqual(a, b) == lUseEq /\ a = b

\* a bug UpdateArgs could have: the first arrival of a round is kept
UpdateArgs_KeepFirst(current, middle, latest, next) ==
    IF next # NoValue THEN next ELSE latest

\* this.updateArgs: the default (_current, _middle, latest) => latest
UpdateArgs(current, middle, latest, next) == latest

\* the nextArgs field after an invoke with args a arrives during a round
NextArgsAfter(a) ==
    LET nextArgs == UpdateArgs(lCurrentArgs, lMiddleArgs, a, lNextArgs)
    IN  IF AreArgsEqual(nextArgs, lCurrentArgs) THEN NoValue ELSE nextArgs

\* a bug LatestInvoke could have: no `if (this.pending)`, every invoke enters
\* the loop
LatestInvoke_NoBusyCheck(a) ==
    /\ Len(lCalls) < MaxLatestInvokes
    /\ lPromises' = Append(lPromises, Pending)
    /\ lPending' = Len(lPromises) + 1
    /\ lError' = NoValue
    /\ lResult' = NoValue
    /\ lCurrentArgs' = a
    /\ lNextArgs' = NoValue
    /\ lRounds' = Append(lRounds,
          [args |-> a, promise |-> Len(lPromises) + 1, out |-> Pending])
    /\ lCalls' = Append(lCalls,
          [args |-> a, promise |-> Len(lPromises) + 1, driver |-> TRUE,
           round |-> Len(lRounds) + 1, update |-> NoUpdate, ret |-> Pending])
    /\ UNCHANGED <<lUseEq, lMiddleArgs, lLastUpdate>>

\* the call this.updateArgs(currentArgs, this.middleArgs, args, this.nextArgs)
\* made by an invoke with args a on a busy instance
UpdateCall(a) ==
    [current |-> lCurrentArgs, middle |-> lMiddleArgs, latest |-> a,
     next |-> lNextArgs]

\* invoke(...args)
LatestInvoke(a) ==
    /\ Len(lCalls) < MaxLatestInvokes
    /\ IF lPending # 0
       THEN \* a round is running: update nextArgs, return this.pending.promise
            /\ lNextArgs' = NextArgsAfter(a)
            /\ lLastUpdate' = UpdateCall(a)
            /\ lCalls' = Append(lCalls,
                  [args |-> a, promise |-> lPending, driver |-> FALSE,
                   round |-> Len(lRounds), update |-> UpdateCall(a),
                   ret |-> Pending])
            /\ UNCHANGED <<lPending, lPromises, lCurrentArgs, lError, lResult,
                           lRounds>>
       ELSE \* idle: make the promise and enter the loop, up to `await fn(...)`
            /\ lPromises' = Append(lPromises, Pending)
            /\ lPending' = Len(lPromises) + 1
            /\ lError' = NoValue
            /\ lResult' = NoValue
            /\ lCurrentArgs' = a
            /\ lNextArgs' = NoValue
            /\ lRounds' = Append(lRounds,
                  [args |-> a, promise |-> Len(lPromises) + 1, out |-> Pending])
            /\ lCalls' = Append(lCalls,
                  [args |-> a, promise |-> Len(lPromises) + 1, driver |-> TRUE,
                   round |-> Len(lRounds) + 1, update |-> NoUpdate,
                   ret |-> Pending])
            /\ UNCHANGED lLastUpdate
    /\ UNCHANGED <<lUseEq, lMiddleArgs>>

\* the local `error` after the awaited fn settled with out
ErrorAfter(out) == IF out.kind = "err" THEN out.v ELSE lError
\* a bug ResultAfter could have: the result of the first round is kept
ResultAfter_KeepFirst(out) ==
    IF out.kind = "ok" /\ lResult = NoValue THEN out.v ELSE lResult

\* the local `result` after the awaited fn settled with out
ResultAfter(out) == IF out.kind = "ok" THEN out.v ELSE lResult

\* what the loop's exit settles the pending promise (and the driver) with
LatestFinal(error, result) == IF Truthy(error) THEN Err(error) ELSE Ok(result)

\* a bug LatestSettle could have: pending.resolve / pending.reject is left out
LatestSettle_DriverOnly(c, final) ==
    IF c.promise = lPending /\ c.driver THEN [c EXCEPT !.ret = final] ELSE c

\* what invoke c returns once the loop has ended with final: the driver by
\* its own throw / return, the others by the pending promise they were given
LatestSettle(c, final) ==
    IF c.promise = lPending THEN [c EXCEPT !.ret = final] ELSE c

\* the continuation after `await fn(...this.currentArgs)`, but for the record
\* of rounds: the next iteration of the loop when nextArgs is set, else the
\* code after the loop
LatestLoop(out) ==
    /\ lPending # 0
    /\ lError' = ErrorAfter(out)
    /\ lResult' = ResultAfter(out)
    /\ IF lNextArgs # NoValue
       THEN /\ lCurrentArgs' = lNextArgs
            /\ lNextArgs' = NoValue
            /\ UNCHANGED <<lPending, lPromises, lCalls>>
       ELSE /\ lCurrentArgs' = NoValue
            /\ lPending' = 0
            /\ lPromises' = SetAt(lPromises, lPending,
                                  LatestFinal(ErrorAfter(out), ResultAfter(out)))
            /\ lCalls' = [i \in 1..Len(lCalls) |->
                  LatestSettle(lCalls[i],
                               LatestFinal(ErrorAfter(out), ResultAfter(out)))]
            /\ UNCHANGED lNextArgs
    /\ UNCHANGED <<lUseEq, lMiddleArgs, lLastUpdate>>

\* lRounds follows the rounds of the invokes of lCalls: is the executing round
\* one of them, and is the round that would follow it?
RoundFollowed == lRounds[Len(lRounds)].out = Pending
NextRoundFollowed == Len(lRounds) < Len(lCalls)

\* the continuation after `await fn(...this.currentArgs)` of a followed round
LatestFnDone(out) ==
    /\ LatestLoop(out)
    /\ RoundFollowed
    /\ IF lNextArgs # NoValue
       THEN /\ NextRoundFollowed
            /\ lRounds' = Append(SetAt(lRounds, Len(lRounds),
                                       [lRounds[Len(lRounds)] EXCEPT !.out = out]),
                  [args |-> lNextArgs, promise |-> lPending, out |-> Pending])
       ELSE lRounds' = SetAt(lRounds, Len(lRounds),
                             [lRounds[Len(lRounds)] EXCEPT !.out = out])

\* the number of invokes lCalls follows when invokes may arrive forever
MaxFairInvokes == 3

\* invoke(...args) on a busy instance by a caller beyond those of lCalls:
\* updateArgs is called, nextArgs is updated, this.pending.promise is returned
LatestArrive(a) ==
    /\ Len(lCalls) >= MaxFairInvokes
    /\ lPending # 0
    /\ lNextArgs' = NextArgsAfter(a)
    /\ lLastUpdate' = UpdateCall(a)
    /\ UNCHANGED <<lUseEq, lPending, lPromises, lCurrentArgs, lMiddleArgs,
                   lError, lResult, lRounds, lCalls>>

\* the continuation after `await fn(...this.currentArgs)` when the executing
\* round or the one that follows it is not in lRounds
LatestFnDoneOn(out) ==
    /\ LatestLoop(out)
    /\ ~RoundFollowed \/ (lNextArgs # NoValue /\ ~NextRoundFollowed)
    /\ lRounds' = IF RoundFollowed
                  THEN SetAt(lRounds, Len(lRounds),
                             [lRounds[Len(lRounds)] EXCEPT !.out = out])
                  ELSE lRounds

(***************************************************************************)
(* debounce                                                                *)
(***************************************************************************)
\* Debounce.next when undefined
NoNext == [args |-> 0, promise |-> 0]

DebFields ==
    /\ dIdle = TRUE
    /\ dNext = NoNext
    /\ dPromises = <<>>
    /\ dExecs = <<>>
    /\ dCalls = <<>>

\* the intervals an instance is made with: none (<= 0) or some
DebIntervals == {0, 100}

\* a debounce instance, in either mode
DebInit == DebFields /\ dDisregard \in BOOLEAN /\ dInterval \in DebIntervals
\* the instance the other specifications leave untouched
DebIdle == DebFields /\ dDisregard = FALSE /\ dInterval = 100

\* what execute knows of fn when its synchronous part ends: nothing yet
\* (fn returned a value or a promise, awaited), or the error fn threw
SyncOutcomes == {Pending} \cup {Err(e) : e \in Errs}

\* the executions that have settled with the promise they are linked to not
\* yet settled: their reaction then(resolve, reject) is a job in the queue
DebJobsOf(execs) ==
    {f \in 1..Len(execs) : execs[f].out # Pending /\ ~execs[f].delivered}
\* the place behind the last job of the queue
DebJobsEnd(execs) ==
    1 + Max({0} \cup {execs[f].seq : f \in DebJobsOf(execs)})
\* the promise of execution s settles, at the end of the job that ran its
\* finally block (s = 0: no promise settles): the reaction on it is queued
DebSettled(execs, s) ==
    IF s = 0 \/ execs[s].delivered THEN execs
    ELSE SetAt(execs, s, [execs[s] EXCEPT !.seq = DebJobsEnd(execs)])

\* a bug DebExecute could have: done starts true whatever the mode
DebExecute_DoneAtStart(execs, args, link, now) ==
    Append(execs, [args |-> args, done |-> TRUE, fired |-> FALSE,
                   delay |-> dInterval, age |-> 0, out |-> now,
                   link |-> link,
                   seq |-> IF now # Pending /\ link # 0
                           THEN DebJobsEnd(execs) ELSE 0,
                   delivered |-> link = 0])

\* a bug DebExecute could have: fn is called without the arguments
DebExecute_NoArgs(execs, args, link, now) ==
    Append(execs, [args |-> 0, done |-> dDisregard \/ now # Pending, fired |-> FALSE,
                   delay |-> dInterval, age |-> 0, out |-> now,
                   link |-> link,
                   seq |-> IF now # Pending /\ link # 0
                           THEN DebJobsEnd(execs) ELSE 0,
                   delivered |-> link = 0])

\* a bug DebExecute could have: done starts false whatever the mode
DebExecute_DoneFalse(execs, args, link, now) ==
    Append(execs, [args |-> args, done |-> FALSE, fired |-> FALSE,
                   delay |-> dInterval, age |-> 0, out |-> now,
                   link |-> link,
                   seq |-> IF now # Pending /\ link # 0
                           THEN DebJobsEnd(execs) ELSE 0,
                   delivered |-> link = 0])

\* the synchronous part of execute(...args): the local done, the timer set by
\* setTimeout(..., this.interval) with the time passed since (age, counted
\* up to the delay), and the call of fn, which returns (now = Pending: the
\* rest waits at `await`) or throws (now is the error: the finally block
\* runs at once, finds the timer not fired and sets done, and the promise of
\* execute is rejected when execute returns); link is the promise that
\* execute(...).then(resolve, reject) settles (0 when the caller gets the
\* promise of execute itself); seq: the place in the job queue of that
\* then-reaction (0 when it is not there); delivered: has it run (true from
\* the start when there is none)?
DebExecute(execs, args, link, now) ==
    Append(execs, [args |-> args, done |-> dDisregard \/ now # Pending, fired |-> FALSE,
                   delay |-> dInterval, age |-> 0, out |-> now,
                   link |-> link,
                   seq |-> IF now # Pending /\ link # 0
                           THEN DebJobsEnd(execs) ELSE 0,
                   delivered |-> link = 0])

\* scheduleNext(), called with the execution records as they are by then;
\* now: what fn does when called; s: the execution whose continuation calls
\* scheduleNext and whose promise settles when it returns (0 for a timer)
DebScheduleNext(execs, now, s) ==
    IF dNext # NoNext
    THEN /\ dNext' = NoNext
         /\ dExecs' = DebSettled(
                          DebExecute(execs, dNext.args, dNext.promise, now), s)
         /\ UNCHANGED dIdle
    ELSE /\ dIdle' = TRUE
         /\ dExecs' = DebSettled(execs, s)
         /\ UNCHANGED dNext

\* a bug DebQueue could have: the arguments of the first queued call are kept
DebQueue_KeepFirstArgs(a) ==
    IF dNext = NoNext
    THEN [args |-> a, promise |-> Len(dPromises) + 1]
    ELSE dNext

\* a bug DebQueue could have: every invoke makes a new record and promise
DebQueue_NewRecord(a) == [args |-> a, promise |-> Len(dPromises) + 1]

\* the `next` field after an invoke with args a on a busy instance
DebQueue(a) ==
    IF dNext = NoNext
    THEN [args |-> a, promise |-> Len(dPromises) + 1]
    ELSE [dNext EXCEPT !.args = a]

\* invoke(...args); now: what fn does when called
DebInvoke(a, now) ==
    /\ Len(dCalls) < MaxDebInvokes
    /\ now # Pending => dIdle
    /\ IF dIdle
       THEN /\ dIdle' = FALSE
            /\ dExecs' = DebExecute(dExecs, a, 0, now)
            /\ dCalls' = Append(dCalls,
                  [args |-> a, exec |-> Len(dExecs) + 1, promise |-> 0,
                   ret |-> now])
            /\ UNCHANGED <<dNext, dPromises>>
       ELSE /\ dNext' = DebQueue(a)
            /\ dPromises' = IF dNext = NoNext
                            THEN Append(dPromises, Pending) ELSE dPromises
            /\ dCalls' = Append(dCalls,
                  [args |-> a, exec |-> 0, promise |-> DebQueue(a).promise,
                   ret |-> Pending])
            /\ UNCHANGED <<dIdle, dExecs>>
    /\ UNCHANGED <<dDisregard, dInterval>>

\* invoke(...args) by a caller beyond those of dCalls, on a busy instance with
\* a call queued: it joins the queued call
DebArrive(a) ==
    /\ Len(dCalls) >= MaxFairInvokes
    /\ ~dIdle
    /\ dNext # NoNext
    /\ dNext' = DebQueue(a)
    /\ UNCHANGED <<dDisregard, dInterval, dIdle, dPromises, dExecs, dCalls>>

\* the amounts by which time advances in one step, in ms
Ticks == {50}

\* time passes: every timer set by setTimeout is d ms older
DebTick(d) ==
    /\ \E e \in 1..Len(dExecs) : dExecs[e].age < dExecs[e].delay
    /\ dExecs' = [e \in 1..Len(dExecs) |->
          [dExecs[e] EXCEPT
              !.age = IF @ + d < dExecs[e].delay THEN @ + d ELSE dExecs[e].delay]]
    /\ UNCHANGED <<dDisregard, dInterval, dIdle, dNext, dPromises, dCalls>>

\* a bug TimerDue could have: setTimeout is given no delay
TimerDue_NoDelay(e) == TRUE

\* the timer of execution e may fire: its delay has passed
TimerDue(e) == dExecs[e].age >= dExecs[e].delay

\* the setTimeout callback of execution e; now: what fn does when called
DebTimer(e, now) ==
    /\ e \in 1..Len(dExecs)
    /\ ~dExecs[e].fired
    /\ TimerDue(e)
    /\ now # Pending => (dExecs[e].done /\ dNext # NoNext)
    /\ IF dExecs[e].done
       THEN DebScheduleNext(
               SetAt(dExecs, e, [dExecs[e] EXCEPT !.fired = TRUE]), now, 0)
       ELSE /\ dExecs' = SetAt(dExecs, e,
                  [dExecs[e] EXCEPT !.fired = TRUE, !.done = TRUE])
            /\ UNCHANGED <<dIdle, dNext>>
    /\ UNCHANGED <<dDisregard, dInterval, dPromises, dCalls>>

\* the reactions waiting in the job queue
DebJobs == DebJobsOf(dExecs)

\* a bug DebFnDone could have: the block after the await is skipped when fn
\* fails (no finally)
DebFnDone_NoFinallyOnError(e, out, now) ==
    /\ e \in 1..Len(dExecs)
    /\ dExecs[e].out = Pending
    /\ now # Pending => (~dDisregard /\ dExecs[e].done /\ dNext # NoNext)
    /\ IF ~dDisregard /\ out.kind = "ok"
       THEN IF dExecs[e].done
            THEN DebScheduleNext(
                    SetAt(dExecs, e, [dExecs[e] EXCEPT !.out = out]), now, e)
            ELSE /\ dExecs' = DebSettled(SetAt(dExecs, e,
                       [dExecs[e] EXCEPT !.out = out, !.done = TRUE]), e)
                 /\ UNCHANGED <<dIdle, dNext>>
       ELSE /\ dExecs' = DebSettled(
                  SetAt(dExecs, e, [dExecs[e] EXCEPT !.out = out]), e)
            /\ UNCHANGED <<dIdle, dNext>>
    /\ dCalls' = [i \in 1..Len(dCalls) |->
          IF dCalls[i].exec = e
          THEN [dCalls[i] EXCEPT !.ret = out] ELSE dCalls[i]]
    /\ UNCHANGED <<dDisregard, dInterval, dPromises>>

\* the continuation of execution e after `await fn(...args)` settled with out:
\* the finally block, then the promise of execute settles, which answers the
\* caller whose invoke returned it and puts the reaction then(resolve,
\* reject) in the job queue, behind that of an execution that the finally
\* block started and whose fn threw; now: what fn does when called
DebFnDone(e, out, now) ==
    /\ e \in 1..Len(dExecs)
    /\ dExecs[e].out = Pending
    /\ now # Pending => (~dDisregard /\ dExecs[e].done /\ dNext # NoNext)
    /\ IF ~dDisregard
       THEN IF dExecs[e].done
            THEN DebScheduleNext(
                    SetAt(dExecs, e, [dExecs[e] EXCEPT !.out = out]), now, e)
            ELSE /\ dExecs' = DebSettled(SetAt(dExecs, e,
                       [dExecs[e] EXCEPT !.out = out, !.done = TRUE]), e)
                 /\ UNCHANGED <<dIdle, dNext>>
       ELSE /\ dExecs' = DebSettled(
                  SetAt(dExecs, e, [dExecs[e] EXCEPT !.out = out]), e)
            /\ UNCHANGED <<dIdle, dNext>>
    /\ dCalls' = [i \in 1..Len(dCalls) |->
          IF dCalls[i].exec = e
          THEN [dCalls[i] EXCEPT !.ret = out] ELSE dCalls[i]]
    /\ UNCHANGED <<dDisregard, dInterval, dPromises>>

\* the reaction then(resolve, reject) on the promise of execution e, which
\* scheduleNext started for a queued call: a later job than the one in which
\* execute settled, run in the order in which the executions settled; it
\* settles the promise the queued callers hold
DebDeliver(e) ==
    /\ e \in 1..Len(dExecs)
    /\ dExecs[e].out # Pending
    /\ ~dExecs[e].delivered
    /\ \A f \in DebJobs : dExecs[f].seq >= dExecs[e].seq
    /\ dExecs' = SetAt(dExecs, e,
          [dExecs[e] EXCEPT !.delivered = TRUE, !.seq = 0])
    /\ dPromises' = SetAt(dPromises, dExecs[e].link, dExecs[e].out)
    /\ dCalls' = [i \in 1..Len(dCalls) |->
          IF dCalls[i].promise # 0 /\ dCalls[i].promise = dExecs[e].link
          THEN [dCalls[i] EXCEPT !.ret = dExecs[e].out] ELSE dCalls[i]]
    /\ UNCHANGED <<dDisregard, dInterval, dIdle, dNext>>

(***************************************************************************)
(* batch                                                                   *)
(***************************************************************************)
\* the argument tuple of the i-th caller: a list of one message, i
BatchArgs == {<<a>> : a \in FreshArgs(bCalls)}
\* what batch and unbatch throw when they throw
BatchThrown == "ebatch"
UnbatchThrown == "eunbatch"

\* outcomes seen by callers of a batch instance: part is 0 for the output of
\* fn itself and i for the i-th element of the list unbatch returned
BPending == [kind |-> "pending", v |-> "-", part |-> 0]
BWhole(out) == [kind |-> out.kind, v |-> out.v, part |-> 0]
BShare(out, i) == [kind |-> out.kind, v |-> out.v, part |-> i]

RECURSIVE Concat(_)
Concat(ss) == IF ss = <<>> THEN <<>> ELSE Head(ss) \o Concat(Tail(ss))

\* the supplied batch function: joins the message lists of all the inputs
BatchFn(inputs) == Concat(inputs)

\* next.map(({ input }) => input)
Inputs(next) == [i \in 1..Len(next) |-> next[i].input]

BatchFields ==
    /\ bIdle = TRUE
    /\ bScheduled = <<>>
    /\ bPromises = <<>>
    /\ bExecs = <<>>
    /\ bCalls = <<>>
    /\ bBatchLog = <<>>
    /\ bUnbatchLog = <<>>

\* a batch instance, in either mode, with or without unbatch
BatchInit == BatchFields /\ bDisregard \in BOOLEAN /\ bUnbatch \in BOOLEAN
\* the instance the other specifications leave untouched
BatchIdle == BatchFields /\ bDisregard = FALSE /\ bUnbatch = FALSE

\* the executions that have settled with the calls queued for them not yet
\* answered: the continuation of the scheduleNext awaiting them is a job in
\* the queue
BatchJobs(execs) ==
    {f \in 1..Len(execs) : execs[f].out # Pending /\ ~execs[f].delivered}
\* the place behind the last job of the queue
BatchJobsEnd(execs) ==
    1 + Max({0} \cup {execs[f].seq : f \in BatchJobs(execs)})
\* the promise of execution s settles, at the end of the job that ran its
\* finally block (s = 0: no promise settles): the continuation of the
\* scheduleNext awaiting it is queued
BatchSettled(execs, s) ==
    IF s = 0 \/ execs[s].delivered THEN execs
    ELSE SetAt(execs, s, [execs[s] EXCEPT !.seq = BatchJobsEnd(execs)])

\* a bug BatchExecute could have: fn is called without the arguments
BatchExecute_NoArgs(execs, args, next, now) ==
    Append(execs, [args |-> <<>>, done |-> bDisregard \/ now # Pending, fired |-> FALSE,
                   out |-> now,
                   seq |-> IF now # Pending /\ next # <<>>
                           THEN BatchJobsEnd(execs) ELSE 0,
                   next |-> next, delivered |-> next = <<>>])

\* a bug BatchExecute could have: done starts true whatever the mode
BatchExecute_DoneAtStart(execs, args, next, now) ==
    Append(execs, [args |-> args, done |-> TRUE, fired |-> FALSE,
                   out |-> now,
                   seq |-> IF now # Pending /\ next # <<>>
                           THEN BatchJobsEnd(execs) ELSE 0,
                   next |-> next, delivered |-> next = <<>>])

\* the synchronous part of execute(...args): fn returns (now = Pending: the
\* rest waits at `await`) or throws (now is the error: the finally block
\* runs at once, finds the timer not fired and sets done, and the promise of
\* execute is rejected when execute returns); next is the local `next` of the
\* scheduleNext that awaits this execution (empty when invoke called execute);
\* seq: the place in the job queue of the continuation of that scheduleNext
\* (0 when it is not there);
\* delivered: has that scheduleNext answered its queued calls (true from the
\* start when there are none)?
BatchExecute(execs, args, next, now) ==
    Append(execs, [args |-> args, done |-> bDisregard \/ now # Pending, fired |-> FALSE,
                   out |-> now,
                   seq |-> IF now # Pending /\ next # <<>>
                           THEN BatchJobsEnd(execs) ELSE 0,
                   next |-> next, delivered |-> next = <<>>])

\* a bug BatchScheduleNext could have: batch is used only above two queued
\* calls, so that two queued calls run with the first one's input
BatchScheduleNext_Over2(execs, throws, now, s) ==
    IF Len(bScheduled) # 0
    THEN /\ bScheduled' = <<>>
         /\ bBatchLog' = IF Len(bScheduled) > 2
                         THEN Append(bBatchLog, Inputs(bScheduled)) ELSE bBatchLog
         /\ bExecs' = BatchSettled(
               IF Len(bScheduled) > 2
               THEN IF throws THEN execs
                    ELSE BatchExecute(execs, BatchFn(Inputs(bScheduled)),
                                      bScheduled, now)
               ELSE BatchExecute(execs, Inputs(bScheduled)[1], bScheduled, now),
               s)
         /\ UNCHANGED bIdle
    ELSE /\ bIdle' = TRUE
         /\ bExecs' = BatchSettled(execs, s)
         /\ UNCHANGED <<bScheduled, bBatchLog>>

\* scheduleNext() up to `await this.execute(...input)`, called with the
\* execution records as they are by then; throws: does batch(inputs) throw?
\* now: what fn does when called; s: the execution whose continuation calls
\* scheduleNext and whose promise settles when it returns (0 for a timer)
BatchScheduleNext(execs, throws, now, s) ==
    IF Len(bScheduled) # 0
    THEN /\ bScheduled' = <<>>
         /\ bBatchLog' = IF Len(bScheduled) > 1
                         THEN Append(bBatchLog, Inputs(bScheduled)) ELSE bBatchLog
         /\ bExecs' = BatchSettled(
               IF Len(bScheduled) > 1
               THEN IF throws THEN execs
                    ELSE BatchExecute(execs, BatchFn(Inputs(bScheduled)),
                                      bScheduled, now)
               ELSE BatchExecute(execs, Inputs(bScheduled)[1], bScheduled, now),
               s)
         /\ UNCHANGED bIdle
    ELSE /\ bIdle' = TRUE
         /\ bExecs' = BatchSettled(execs, s)
         /\ UNCHANGED <<bScheduled, bBatchLog>>

\* invoke(...args); now: what fn does when called
BatchInvoke(a, now) ==
    /\ Len(bCalls) < MaxBatchInvokes
    /\ now # Pending => bIdle
    /\ IF bIdle
       THEN /\ bIdle' = FALSE
            /\ bExecs' = BatchExecute(bExecs, a, <<>>, now)
            /\ bCalls' = Append(bCalls,
                  [args |-> a, exec |-> Len(bExecs) + 1, promise |-> 0,
                   ret |-> BWhole(now)])
            /\ UNCHANGED <<bScheduled, bPromises>>
       ELSE /\ bPromises' = Append(bPromises, [out |-> BPending, n |-> 0])
            /\ bScheduled' = Append(bScheduled,
                  [input |-> a, promise |-> Len(bPromises) + 1])
            /\ bCalls' = Append(bCalls,
                  [args |-> a, exec |-> 0, promise |-> Len(bPromises) + 1,
                   ret |-> BPending])
            /\ UNCHANGED <<bIdle, bExecs>>
    /\ UNCHANGED <<bDisregard, bUnbatch, bBatchLog, bUnbatchLog>>

\* the setTimeout callback of execution e; throws: does batch throw (it can
\* only when this step calls it)? now: what fn does when called
BatchTimer(e, throws, now) ==
    /\ e \in 1..Len(bExecs)
    /\ ~bExecs[e].fired
    /\ throws => (bExecs[e].done /\ Len(bScheduled) > 1)
    /\ now # Pending => (bExecs[e].done /\ Len(bScheduled) > 0 /\ ~throws)
    /\ IF bExecs[e].done
       THEN BatchScheduleNext(
               SetAt(bExecs, e, [bExecs[e] EXCEPT !.fired = TRUE]),
               throws, now, 0)
       ELSE /\ bExecs' = SetAt(bExecs, e,
                  [bExecs[e] EXCEPT !.fired = TRUE, !.done = TRUE])
            /\ UNCHANGED <<bIdle, bScheduled, bBatchLog>>
    /\ UNCHANGED <<bDisregard, bUnbatch, bPromises, bCalls, bUnbatchLog>>

\* a bug CallsUnbatch could have: no test of the number of inputs
CallsUnbatch_AnyLength(e, out) ==
    out.kind = "ok" /\ bUnbatch /\ Len(bExecs[e].next) > 0

\* does the scheduleNext awaiting execution e call unbatch on output out?
CallsUnbatch(e, out) ==
    out.kind = "ok" /\ bUnbatch /\ Len(bExecs[e].next) > 1

\* a bug BatchSettle could have: the catch block rejects next[0] only
BatchSettle_RejectFirstOnly(e, out, uthrows, i) ==
    IF CallsUnbatch(e, out)
    THEN IF uthrows
         THEN [kind |-> "err", v |-> UnbatchThrown, part |-> 0]
         ELSE BShare(out, i)
    ELSE IF out.kind = "err" /\ i > 1 THEN BPending ELSE BWhole(out)

\* a bug BatchSettle could have: every caller gets outputs[0]
BatchSettle_AllFirst(e, out, uthrows, i) ==
    IF CallsUnbatch(e, out)
    THEN IF uthrows
         THEN [kind |-> "err", v |-> UnbatchThrown, part |-> 0]
         ELSE BShare(out, 1)
    ELSE BWhole(out)

\* what the scheduleNext awaiting execution e settles its i-th queued call
\* with, fn having settled with out; uthrows: does unbatch throw?
BatchSettle(e, out, uthrows, i) ==
    IF CallsUnbatch(e, out)
    THEN IF uthrows
         THEN [kind |-> "err", v |-> UnbatchThrown, part |-> 0]
         ELSE BShare(out, i)
    ELSE BWhole(out)

\* the index of the queued call of execution e that holds promise p, or 0
QueuedAt(e, p) ==
    IF \E i \in 1..Len(bExecs[e].next) : bExecs[e].next[i].promise = p
    THEN CHOOSE i \in 1..Len(bExecs[e].next) : bExecs[e].next[i].promise = p
    ELSE 0

\* the continuation of execution e after `await fn(...args)` settled with out:
\* the finally block, then the promise of execute settles, which answers the
\* caller whose invoke returned it and puts the continuation of the
\* scheduleNext awaiting it in the job queue, behind that of an execution
\* that the finally block started and whose fn threw; throws: does batch
\* throw (it can only when this step calls it)? now: what fn does when called
BatchFnDone(e, out, throws, now) ==
    /\ e \in 1..Len(bExecs)
    /\ bExecs[e].out = Pending
    /\ throws => (~bDisregard /\ bExecs[e].done /\ Len(bScheduled) > 1)
    /\ now # Pending =>
          (~bDisregard /\ bExecs[e].done /\ Len(bScheduled) > 0 /\ ~throws)
    /\ IF ~bDisregard
       THEN IF bExecs[e].done
            THEN BatchScheduleNext(
                    SetAt(bExecs, e, [bExecs[e] EXCEPT !.out = out]),
                    throws, now, e)
            ELSE /\ bExecs' = BatchSettled(SetAt(bExecs, e,
                       [bExecs[e] EXCEPT !.out = out, !.done = TRUE]), e)
                 /\ UNCHANGED <<bIdle, bScheduled, bBatchLog>>
       ELSE /\ bExecs' = BatchSettled(
                  SetAt(bExecs, e, [bExecs[e] EXCEPT !.out = out]), e)
            /\ UNCHANGED <<bIdle, bScheduled, bBatchLog>>
    /\ bCalls' = [i \in 1..Len(bCalls) |->
          IF bCalls[i].exec = e
          THEN [bCalls[i] EXCEPT !.ret = BWhole(out)]
          ELSE bCalls[i]]
    /\ UNCHANGED <<bDisregard, bUnbatch, bPromises, bUnbatchLog>>

\* the continuation of `await this.execute(...input)` in the scheduleNext
\* that started execution e, a later job than the one in which execute
\* settled, run in the order in which the executions settled: unbatch, then
\* resolve or reject of the queued calls; uthrows: does unbatch throw (it can
\* only when this step calls it)?
BatchDeliver(e, uthrows) ==
    /\ e \in 1..Len(bExecs)
    /\ bExecs[e].out # Pending
    /\ ~bExecs[e].delivered
    /\ \A f \in BatchJobs(bExecs) : bExecs[f].seq >= bExecs[e].seq
    /\ uthrows => CallsUnbatch(e, bExecs[e].out)
    /\ bExecs' = SetAt(bExecs, e,
          [bExecs[e] EXCEPT !.delivered = TRUE, !.seq = 0])
    /\ bUnbatchLog' = IF CallsUnbatch(e, bExecs[e].out)
                      THEN Append(bUnbatchLog,
                             [inputs |-> Inputs(bExecs[e].next),
                              output |-> bExecs[e].out.v])
                      ELSE bUnbatchLog
    /\ bPromises' = [p \in 1..Len(bPromises) |->
          IF QueuedAt(e, p) # 0
          THEN [out |-> BatchSettle(e, bExecs[e].out, uthrows, QueuedAt(e, p)),
                n |-> bPromises[p].n + 1]
          ELSE bPromises[p]]
    /\ bCalls' = [i \in 1..Len(bCalls) |->
          IF bCalls[i].promise # 0 /\ QueuedAt(e, bCalls[i].promise) # 0
          THEN [bCalls[i] EXCEPT
                  !.ret = BatchSettle(e, bExecs[e].out, uthrows,
                                      QueuedAt(e, bCalls[i].promise))]
          ELSE bCalls[i]]
    /\ UNCHANGED <<bDisregard, bUnbatch, bIdle, bScheduled, bBatchLog>>

(***************************************************************************)
(* RwLock                                                                  *)
(* many readers or one writer; waiting requests are served in the order    *)
(* they arrived.  A client is "idle", "waiting" (its future is pending) or *)
(* "held" (its future resolved with a guard that is not yet released).     *)
(***************************************************************************)
RwClientIds == 1..NumRwClients
\* queued: did the request have to wait in the queue?
RwIdleClient == [st |-> "idle", kind |-> "read", queued |-> FALSE]

RwInit ==
    /\ rwWriterActive = FALSE
    /\ rwActiveReaders = 0
    /\ rwQueue = <<>>
    /\ rwClients = [c \in RwClientIds |-> RwIdleClient]

\* a read guard is handed out once no writer is active or waiting ahead
ReadAdmitted_JumpsQueue(writer, ahead) == ~writer
ReadAdmitted(writer, ahead) == ~writer /\ ahead = <<>>

\* a write guard is handed out once no reader or writer holds or precedes
WriteAdmitted_IgnoresReaders(writer, readers, ahead) ==
    ~writer /\ ahead = <<>>
WriteAdmitted(writer, readers, ahead) ==
    ~writer /\ readers = 0 /\ ahead = <<>>

RwHold(clients, c, k, q) ==
    [clients EXCEPT ![c] = [st |-> "held", kind |-> k, queued |-> q]]

\* read(): the guard at once when admitted, else the request joins the queue
RwRead(c) ==
    /\ rwClients[c].st = "idle"
    /\ IF ReadAdmitted(rwWriterActive, rwQueue)
       THEN /\ rwActiveReaders' = rwActiveReaders + 1
            /\ rwClients' = RwHold(rwClients, c, "read", FALSE)
            /\ UNCHANGED rwQueue
       ELSE /\ rwQueue' = Append(rwQueue, [client |-> c, kind |-> "read"])
            /\ rwClients' =
                   [rwClients EXCEPT ![c] = [st |-> "waiting", kind |-> "read",
                                             queued |-> TRUE]]
            /\ UNCHANGED rwActiveReaders
    /\ UNCHANGED rwWriterActive

\* write(): the guard at once when admitted, else the request joins the queue
RwWrite(c) ==
    /\ rwClients[c].st = "idle"
    /\ IF WriteAdmitted(rwWriterActive, rwActiveReaders, rwQueue)
       THEN /\ rwWriterActive' = TRUE
            /\ rwClients' = RwHold(rwClients, c, "write", FALSE)
            /\ UNCHANGED rwQueue
       ELSE /\ rwQueue' = Append(rwQueue, [client |-> c, kind |-> "write"])
            /\ rwClients' =
                   [rwClients EXCEPT ![c] = [st |-> "waiting", kind |-> "write",
                                             queued |-> TRUE]]
            /\ UNCHANGED rwWriterActive
    /\ UNCHANGED rwActiveReaders

\* the requests at the front of the queue that can be admitted are admitted,
\* in order: the state of the lock after that
RECURSIVE RwGrant(_, _, _, _)
RwGrant(writer, readers, queue, clients) ==
    IF queue = <<>>
    THEN [writer |-> writer, readers |-> readers, queue |-> queue,
          clients |-> clients]
    ELSE IF Head(queue).kind = "read" /\ ReadAdmitted(writer, <<>>)
    THEN RwGrant(writer, readers + 1, Tail(queue),
                 RwHold(clients, Head(queue).client, "read", TRUE))
    ELSE IF Head(queue).kind = "write" /\ WriteAdmitted(writer, readers, <<>>)
    THEN RwGrant(TRUE, readers, Tail(queue),
                 RwHold(clients, Head(queue).client, "write", TRUE))
    ELSE [writer |-> writer, readers |-> readers, queue |-> queue,
          clients |-> clients]

\* a guard is released; the waiting requests that can now go ahead do
RwRelease(c) ==
    /\ rwClients[c].st = "held"
    /\ LET isWrite == rwClients[c].kind = "write"
           after == RwGrant(IF isWrite THEN FALSE ELSE rwWriterActive,
                            IF isWrite THEN rwActiveReaders
                                       ELSE rwActiveReaders - 1,
                            rwQueue,
                            [rwClients EXCEPT ![c] = RwIdleClient])
       IN  /\ rwWriterActive' = after.writer
           /\ rwActiveReaders' = after.readers
           /\ rwQueue' = after.queue
           /\ rwClients' = after.clients

(***************************************************************************)
(* Erc (makeErcType)                                                       *)
(* One Erc made by createStrongRef, the weak references made from it, and  *)
(* the calls it makes to the external free and addRef.  The Ercs returned  *)
(* by getStrong are recorded by their value and not followed further.      *)
(***************************************************************************)
\* undefined, "nullptr"
ErcUndefined == 0
\* the representations the external allocator hands out
ErcValues == {1, 2}

\* createStrongRef(value): nothing freed, no weak reference yet
ErcInit ==
    /\ ercValue \in ErcValues \cup {ErcUndefined}
    /\ ercWeakRef = 0
    /\ ercWeaks = <<>>
    /\ ercFreeLog = <<>>
    /\ ercAddRefLog = <<>>
    /\ ercGiven = IF ercValue = ErcUndefined THEN <<>> ELSE <<ercValue>>
    /\ ercLog = <<>>
\* no Erc is in use
ErcIdle == ErcInit /\ ercValue = ErcUndefined

\* one operation: its name, its argument (for getWeak the value of the weak
\* reference returned), its return value, and erc.value when it returns
ErcLogged(op, arg, ret, value) ==
    Append(ercLog, [op |-> op, arg |-> arg, ret |-> ret, value |-> value])
ErcMore == Len(ercLog) < MaxErcOps

\* invalidateWeakRef: the weak values after it
InvalidateWeakRef_Skip(weaks, ref) == weaks
InvalidateWeakRef(weaks, ref) ==
    IF ref = 0 THEN weaks ELSE [weaks EXCEPT ![ref] = ErcUndefined]

\* the body of erc.free, shared by free() and assign(): the state it leaves
ErcFreeBody_KeepsValue ==
    IF ercValue # ErcUndefined
    THEN [weaks |-> InvalidateWeakRef(ercWeaks, ercWeakRef), ref |-> 0,
          freed |-> Append(ercFreeLog, ercValue), value |-> ercValue]
    ELSE [weaks |-> ercWeaks, ref |-> ercWeakRef, freed |-> ercFreeLog,
          value |-> ercValue]
ErcFreeBody ==
    IF ercValue # ErcUndefined
    THEN [weaks |-> InvalidateWeakRef(ercWeaks, ercWeakRef), ref |-> 0,
          freed |-> Append(ercFreeLog, ercValue), value |-> ErcUndefined]
    ELSE [weaks |-> ercWeaks, ref |-> ercWeakRef, freed |-> ercFreeLog,
          value |-> ercValue]

ErcFree ==
    /\ ErcMore
    /\ ercWeaks' = ErcFreeBody.weaks
    /\ ercWeakRef' = ErcFreeBody.ref
    /\ ercFreeLog' = ErcFreeBody.freed
    /\ ercValue' = ErcFreeBody.value
    /\ ercLog' = ErcLogged("free", ErcUndefined, ErcUndefined, ercValue')
    /\ UNCHANGED <<ercAddRefLog, ercGiven>>

ErcAssign(newValue) ==
    /\ ErcMore
    /\ ercWeaks' = ErcFreeBody.weaks
    /\ ercWeakRef' = ErcFreeBody.ref
    /\ ercFreeLog' = ErcFreeBody.freed
    /\ ercValue' = newValue
    /\ ercGiven' = IF newValue = ErcUndefined THEN ercGiven
                   ELSE Append(ercGiven, newValue)
    /\ ercLog' = ErcLogged("assign", newValue, ErcUndefined, ercValue')
    /\ UNCHANGED ercAddRefLog

ErcTake ==
    /\ ErcMore
    /\ ercWeaks' = InvalidateWeakRef(ercWeaks, ercWeakRef)
    /\ ercWeakRef' = 0
    /\ ercValue' = ErcUndefined
    /\ ercLog' = ErcLogged("take", ErcUndefined, ercValue, ercValue')
    /\ UNCHANGED <<ercFreeLog, ercAddRefLog, ercGiven>>

\* getWeak: the weak reference kept in weakRef, made now if there is none
ErcGetWeak ==
    /\ ErcMore
    /\ IF ercWeakRef = 0
       THEN /\ ercWeaks' = Append(ercWeaks, ercValue)
            /\ ercWeakRef' = Len(ercWeaks) + 1
       ELSE UNCHANGED <<ercWeaks, ercWeakRef>>
    /\ ercLog' = ErcLogged("getWeak", ercWeaks'[ercWeakRef'], ercWeakRef',
                           ercValue)
    /\ UNCHANGED <<ercValue, ercFreeLog, ercAddRefLog, ercGiven>>

\* getStrong of a holder of value v, addRef answering r: the value of the
\* new Erc and the calls made to addRef
StrongOf(v, r) == IF v = ErcUndefined THEN ErcUndefined ELSE r
AddRefAfter(v) ==
    IF v = ErcUndefined THEN ercAddRefLog ELSE Append(ercAddRefLog, v)

\* erc.getStrong(); r is what addRef returns
ErcGetStrong(r) ==
    /\ ErcMore
    /\ ercValue = ErcUndefined => r = 1
    /\ ercAddRefLog' = AddRefAfter(ercValue)
    /\ ercLog' = ErcLogged("getStrong", ErcUndefined, StrongOf(ercValue, r),
                           ercValue)
    /\ UNCHANGED <<ercValue, ercWeakRef, ercWeaks, ercFreeLog, ercGiven>>

\* weak.getStrong() on the w-th weak reference made; r is what addRef returns
WeakGetStrong(w, r) ==
    /\ ErcMore
    /\ w \in 1..Len(ercWeaks)
    /\ ercWeaks[w] = ErcUndefined => r = 1
    /\ ercAddRefLog' = AddRefAfter(ercWeaks[w])
    /\ ercLog' = ErcLogged("weakGetStrong", w, StrongOf(ercWeaks[w], r),
                           ercValue)
    /\ UNCHANGED <<ercValue, ercWeakRef, ercWeaks, ercFreeLog, ercGiven>>

(***************************************************************************)
(* Specifications                                                          *)
(***************************************************************************)
Init ==
    /\ SerialInit /\ OnceInit /\ LatestInit /\ DebInit /\ BatchInit /\ RwInit
    /\ ErcInit
InitSerial ==
    SerialInit /\ OnceInit /\ LatestIdle /\ DebIdle /\ BatchIdle /\ RwInit
    /\ ErcIdle
InitOnce == InitSerial
InitLatest ==
    SerialInit /\ OnceInit /\ LatestInit /\ DebIdle /\ BatchIdle /\ RwInit
    /\ ErcIdle
InitDebounce ==
    SerialInit /\ OnceInit /\ LatestIdle /\ DebInit /\ BatchIdle /\ RwInit
    /\ ErcIdle
InitBatch ==
    SerialInit /\ OnceInit /\ LatestIdle /\ DebIdle /\ BatchInit /\ RwInit
    /\ ErcIdle
InitRwLock == InitSerial
InitErc ==
    SerialInit /\ OnceInit /\ LatestIdle /\ DebIdle /\ BatchIdle /\ RwInit
    /\ ErcInit

OnlySerial == UNCHANGED <<onceVars, latestVars, debVars, batchVars, rwVars,
               ercVars>>
OnlyOnce == UNCHANGED <<serialVars, latestVars, debVars, batchVars, rwVars,
               ercVars>>
OnlyLatest == UNCHANGED <<serialVars, onceVars, debVars, batchVars, rwVars,
               ercVars>>
OnlyDebounce ==
    UNCHANGED <<serialVars, onceVars, latestVars, batchVars, rwVars,
               ercVars>>
OnlyBatch == UNCHANGED <<serialVars, onceVars, latestVars, debVars, rwVars,
               ercVars>>
OnlyRwLock ==
    UNCHANGED <<serialVars, onceVars, latestVars, debVars, batchVars,
                ercVars>>
OnlyErc ==
    UNCHANGED <<serialVars, onceVars, latestVars, debVars, batchVars,
                rwVars>>

NextSerial ==
    \/ \E a \in SerialArgs : SerialInvoke(a) /\ OnlySerial
    \/ \E r \in 1..MaxSerialInvokes, p \in BOOLEAN :
          SerialBodyCheck(r, p) /\ OnlySerial
    \/ \E r \in 1..MaxSerialInvokes, out \in FnOutcomes :
          SerialBodyEnd(r, out) /\ OnlySerial
    \/ \E r \in 1..MaxSerialInvokes : SerialFinish(r) /\ OnlySerial

NextOnce ==
    \/ \E a \in Args : OnceInvoke(a) /\ OnlyOnce
    \/ \E out \in FnOutcomes : OnceFnDone(out) /\ OnlyOnce

NextLatest ==
    \/ \E a \in Args : LatestInvoke(a) /\ OnlyLatest
    \/ \E out \in LatestOutcomes : LatestFnDone(out) /\ OnlyLatest

NextDebounce ==
    \/ \E a \in FreshArgs(dCalls), now \in SyncOutcomes :
          DebInvoke(a, now) /\ OnlyDebounce
    \/ \E e \in 1..MaxDebInvokes, now \in SyncOutcomes :
          DebTimer(e, now) /\ OnlyDebounce
    \/ \E e \in 1..MaxDebInvokes, out \in FnOutcomes, now \in SyncOutcomes :
          DebFnDone(e, out, now) /\ OnlyDebounce
    \/ \E e \in 1..MaxDebInvokes : DebDeliver(e) /\ OnlyDebounce
    \/ \E d \in Ticks : DebTick(d) /\ OnlyDebounce

NextBatch ==
    \/ \E a \in BatchArgs, now \in SyncOutcomes :
          BatchInvoke(a, now) /\ OnlyBatch
    \/ \E e \in 1..MaxBatchInvokes, t \in BOOLEAN, now \in SyncOutcomes :
          BatchTimer(e, t, now) /\ OnlyBatch
    \/ \E e \in 1..MaxBatchInvokes, out \in FnOutcomes, t \in BOOLEAN,
             now \in SyncOutcomes :
          BatchFnDone(e, out, t, now) /\ OnlyBatch
    \/ \E e \in 1..MaxBatchInvokes, u \in BOOLEAN :
          BatchDeliver(e, u) /\ OnlyBatch

NextRwLock ==
    \/ \E c \in RwClientIds : RwRead(c) /\ OnlyRwLock
    \/ \E c \in RwClientIds : RwWrite(c) /\ OnlyRwLock
    \/ \E c \in RwClientIds : RwRelease(c) /\ OnlyRwLock

NextErc ==
    \/ ErcFree /\ OnlyErc
    \/ \E n \in ErcValues \cup {ErcUndefined} : ErcAssign(n) /\ OnlyErc
    \/ ErcTake /\ OnlyErc
    \/ ErcGetWeak /\ OnlyErc
    \/ \E r \in ErcValues : ErcGetStrong(r) /\ OnlyErc
    \/ \E w \in 1..MaxErcOps, r \in ErcValues : WeakGetStrong(w, r) /\ OnlyErc

Next ==
    \/ NextSerial
    \/ NextOnce
    \/ NextLatest
    \/ NextDebounce
    \/ NextBatch
    \/ NextRwLock
    \/ NextErc

SpecSerial == InitSerial /\ [][NextSerial]_vars
SpecOnce == InitOnce /\ [][NextOnce]_vars
SpecLatest == InitLatest /\ [][NextLatest]_vars
SpecDebounce == InitDebounce /\ [][NextDebounce]_vars
SpecBatch == InitBatch /\ [][NextBatch]_vars
SpecErc == InitErc /\ [][NextErc]_vars

\* latest with callers beyond those of lCalls, when every execution of fn
\* terminates: the continuation of the awaited fn is eventually run
FairOutcomes == {Ok("x"), Err("e1")}
NextLatestFair ==
    \/ \E a \in Args :
          Len(lCalls) < MaxFairInvokes /\ LatestInvoke(a) /\ OnlyLatest
    \/ \E out \in FairOutcomes : LatestFnDone(out) /\ OnlyLatest
    \/ \E a \in Args : LatestArrive(a) /\ OnlyLatest
    \/ \E out \in FairOutcomes : LatestFnDoneOn(out) /\ OnlyLatest

SpecLatestFair ==
    /\ InitLatest
    /\ [][NextLatestFair]_vars
    /\ WF_vars(\E out \in FairOutcomes :
                  (LatestFnDone(out) \/ LatestFnDoneOn(out)) /\ OnlyLatest)

\* debounce with callers beyond those of dCalls, when every execution of fn
\* terminates, time passes, timers fire and queued jobs run
NextDebounceFair ==
    \/ \E a \in FreshArgs(dCalls), now \in SyncOutcomes :
          Len(dCalls) < MaxFairInvokes /\ DebInvoke(a, now) /\ OnlyDebounce
    \/ \E e \in 1..MaxFairInvokes, now \in SyncOutcomes :
          DebTimer(e, now) /\ OnlyDebounce
    \/ \E e \in 1..MaxFairInvokes, out \in FairOutcomes,
             now \in SyncOutcomes :
          DebFnDone(e, out, now) /\ OnlyDebounce
    \/ \E e \in 1..MaxFairInvokes : DebDeliver(e) /\ OnlyDebounce
    \/ \E d \in Ticks : DebTick(d) /\ OnlyDebounce
    \/ \E a \in {MaxFairInvokes + 1, MaxFairInvokes + 2} :
          DebArrive(a) /\ OnlyDebounce

SpecDebounceFair ==
    /\ InitDebounce
    /\ [][NextDebounceFair]_vars
    /\ WF_vars(\E d \in Ticks : DebTick(d) /\ OnlyDebounce)
    /\ \A e \in 1..MaxFairInvokes :
          /\ WF_vars(\E now \in SyncOutcomes : DebTimer(e, now) /\ OnlyDebounce)
          /\ WF_vars(\E out \in FairOutcomes, now \in SyncOutcomes :
                        DebFnDone(e, out, now) /\ OnlyDebounce)
          /\ WF_vars(DebDeliver(e) /\ OnlyDebounce)

\* the lock when every guard handed out is eventually released
SpecRwLock ==
    /\ InitRwLock
    /\ [][NextRwLock]_vars
    /\ \A c \in RwClientIds : WF_vars(RwRelease(c) /\ OnlyRwLock)

InitDebounceOrBatch ==
    SerialInit /\ OnceInit /\ LatestIdle /\ DebInit /\ BatchInit /\ RwInit
    /\ ErcIdle
\* a program with a debounce instance and a batch instance: their steps
\* interleave, up to MaxBothInvokes invokes in all
BothMore == Len(dCalls) + Len(bCalls) < MaxBothInvokes
NextDebounceOrBatch ==
    \/ NextDebounce /\ (Len(dCalls') > Len(dCalls) => BothMore)
    \/ NextBatch /\ (Len(bCalls') > Len(bCalls) => BothMore)
SpecDebounceOrBatch == InitDebounceOrBatch /\ [][NextDebounceOrBatch]_vars
Spec == Init /\ [][Next]_vars


(***************************************************************************)
(* Properties                                                              *)
(***************************************************************************)
\* ---- serial ----
\* C1: a round superseded by a newer invoke before its body ended returns
\* {err: "cancel"} and never {val: ...}, whether or not the body called
\* checkCancel and even if the body produced a result.
C1_SupersededGetsCancel ==
    \A r \in 1..Len(sRounds) :
        (sRounds[r].st = "settled" /\ sRounds[r].supersededAtEnd)
            => sRounds[r].ret = SerCancel

\* a superseded round whose body returned a value without a throwing check
C1_Witness ==
    \E r \in 1..Len(sRounds) :
        /\ sRounds[r].st = "settled"
        /\ sRounds[r].supersededAtEnd
        /\ sRounds[r].body.kind = "ok"
        /\ sRounds[r].checks = 0
        /\ sRounds[r].ret = SerCancel

\* the onCancel calls made for round r
OnCancelCalls(r) ==
    {i \in 1..Len(onCancelLog) : onCancelLog[i][1] = sRounds[r].currentSerial}

\* C10: for every round whose caller receives the cancellation outcome,
\* onCancel is called exactly once, with (the round's epoch, the latest
\* epoch), latest > current.
C10_OnCancelExactlyOnce ==
    \A r \in 1..Len(sRounds) :
        (sRounds[r].st = "settled" /\ sRounds[r].ret = SerCancel)
            => /\ Cardinality(OnCancelCalls(r)) = 1
               /\ \A i \in OnCancelCalls(r) : onCancelLog[i][2] > onCancelLog[i][1]

\* C11: onCancel is called at most once per round, however many times the
\* body calls checkCancel after the round was superseded and counting the
\* wrapper's own final check.
C11_OnCancelAtMostOnce ==
    \A r \in 1..Len(sRounds) : Cardinality(OnCancelCalls(r)) <= 1

\* the body of a superseded round called checkCancel twice, caught the error
\* both times and returned; the wrapper's final check then threw a third time
C11_Witness ==
    \E r \in 1..Len(sRounds) :
        /\ sRounds[r].st = "settled"
        /\ sRounds[r].checks >= 2
        /\ sRounds[r].body.kind = "ok"
        /\ sRounds[r].ret = SerCancel
        /\ Cardinality(OnCancelCalls(r)) = 1

\* C12 as stated: if the body of a round throws and no newer invoke was
\* issued before it threw, the exception propagates to the round's caller; if
\* the round had been superseded when it threw, the caller receives
\* {err: "cancel"} instead.
C12_ThrowDecidedWhenThrown ==
    \A r \in 1..Len(sRounds) :
        (sRounds[r].st = "settled" /\ sRounds[r].body.kind = "err")
            => sRounds[r].ret = IF sRounds[r].supersededAtEnd
                                THEN SerCancel ELSE SerThrow(sRounds[r].body.v)

\* C12 amended: if the body of a round throws and no newer invoke has been
\* issued by the time invoke resumes in its catch block, the exception
\* propagates to the round's caller; if the round has been superseded by
\* then, in particular if it was when the body threw, the exception is
\* suppressed and the caller receives {err: "cancel"}.
C12_ThrowDecidedAtCatch ==
    \A r \in 1..Len(sRounds) :
        (sRounds[r].st = "settled" /\ sRounds[r].body.kind = "err")
            => /\ sRounds[r].supersededAtEnd => sRounds[r].supersededAtFinish
               /\ sRounds[r].ret = IF sRounds[r].supersededAtFinish
                                   THEN SerCancel ELSE SerThrow(sRounds[r].body.v)

\* a body that threw its own error while superseded got the cancellation
\* outcome, and another that threw while current had its error rethrown
C12_Witness ==
    /\ \E r \in 1..Len(sRounds) :
          /\ sRounds[r].st = "settled"
          /\ sRounds[r].body \in {Err(e) : e \in Errs}
          /\ sRounds[r].supersededAtEnd
          /\ sRounds[r].ret = SerCancel
    /\ \E r \in 1..Len(sRounds) :
          /\ sRounds[r].st = "settled"
          /\ sRounds[r].body \in {Err(e) : e \in Errs}
          /\ ~sRounds[r].supersededAtFinish
          /\ sRounds[r].ret = SerThrow(sRounds[r].body.v)

\* C13 as stated: a round for which no newer invoke is issued before its body
\* completes returns {val: r} with r the value of its own body; checkCancel
\* never signals cancellation in it and onCancel is not called for it.
C13_CurrentAtEndReturnsValue ==
    \A r \in 1..Len(sRounds) :
        (/\ sRounds[r].st = "settled"
         /\ sRounds[r].body.kind = "ok"
         /\ ~sRounds[r].supersededAtEnd)
            => /\ sRounds[r].ret = SerVal(sRounds[r].body.v)
               /\ sRounds[r].checks = 0
               /\ OnCancelCalls(r) = {}

\* C13 amended: a round for which no newer invoke is issued before invoke
\* resumes after the await of its body (where the final check is made)
\* returns {val: r} with r the value of its own body; checkCancel never
\* signals cancellation in it and onCancel is not called for it.
C13_CurrentAtFinishReturnsValue ==
    \A r \in 1..Len(sRounds) :
        (/\ sRounds[r].st = "settled"
         /\ sRounds[r].body.kind = "ok"
         /\ ~sRounds[r].supersededAtFinish)
            => /\ sRounds[r].ret = SerVal(sRounds[r].body.v)
               /\ sRounds[r].checks = 0
               /\ ~sRounds[r].cancelled
               /\ OnCancelCalls(r) = {}

\* two rounds have each returned their own value, the values being different
C13_Witness ==
    \E r, q \in 1..Len(sRounds) :
        /\ sRounds[r].st = "settled" /\ sRounds[q].st = "settled"
        /\ ~sRounds[r].supersededAtFinish /\ ~sRounds[q].supersededAtFinish
        /\ sRounds[r].ret.kind = "val" /\ sRounds[q].ret.kind = "val"
        /\ sRounds[r].ret # sRounds[q].ret

\* C28: the serial number starts at 0, increases by exactly 1 on every invoke
\* and by no other step, and never decreases; the body of the k-th invoke
\* receives epoch k, so no two rounds share an epoch.
C28_SerialCountsInvokes ==
    /\ [](/\ serial = Len(sRounds)
          /\ \A r \in 1..Len(sRounds) : sRounds[r].currentSerial = r
          /\ \A r, q \in 1..Len(sRounds) :
                r # q => sRounds[r].currentSerial # sRounds[q].currentSerial)
    /\ [][IF Len(sRounds') > Len(sRounds)
          THEN /\ Len(sRounds') = Len(sRounds) + 1
               /\ serial' = serial + 1
               /\ sRounds'[Len(sRounds')].currentSerial = serial'
          ELSE serial' = serial]_vars

\* three invokes were made; the first round is still running with epoch 1
C28_Witness ==
    /\ serial = 3
    /\ Len(sRounds) = 3
    /\ sRounds[1].st = "running"
    /\ sRounds[3].currentSerial = 3

\* ---- once ----
\* C8: over any number and interleaving of invokes fn is called exactly once,
\* on the first invoke and with the first caller's arguments.
C8_FnCalledOnce ==
    IF onceCalls = <<>>
    THEN onceFnCalls = <<>>
    ELSE onceFnCalls = <<onceCalls[1].args>>

\* invokes came during the execution and after it settled, one of them with
\* other arguments than the first
C8_Witness ==
    /\ \E i \in 1..Len(onceCalls) : onceCalls[i].at = "during"
    /\ \E i \in 1..Len(onceCalls) :
          onceCalls[i].at = "after" /\ onceCalls[i].args # onceCalls[1].args

\* C9: every invoke settles with the outcome of the first call; a failure is
\* cached, so invokes after it are rejected with it and fn is not retried.
C9_SameOutcomeAsFirst ==
    \A i \in 1..Len(onceCalls) :
        /\ onceCalls[i].ret = onceCalls[1].ret
        /\ onceCalls[i].ret = oncePromise
        /\ oncePromise.kind = "err" => Len(onceFnCalls) = 1

\* fn failed, with a caller waiting during the execution and one that came
\* after the failure
C9_Witness ==
    /\ oncePromise.kind = "err"
    /\ \E i \in 1..Len(onceCalls) : onceCalls[i].at = "during"
    /\ \E i \in 1..Len(onceCalls) :
          onceCalls[i].at = "after" /\ onceCalls[i].ret = oncePromise

\* ---- latest ----
\* the invokes and the rounds of the busy period of promise p
PeriodCalls(p) == {i \in 1..Len(lCalls) : lCalls[i].promise = p}
PeriodRounds(p) == {r \in 1..Len(lRounds) : lRounds[r].promise = p}
\* the last round started in the busy period of promise p
LastRound(p) == lRounds[Max(PeriodRounds(p))]

\* C2: all invokes of one busy period resolve to one identical value; when the
\* rounds succeed it is the value of the last round started in the period.
C2_PeriodSharesLastValue ==
    \A p \in 1..Len(lPromises) :
        lPromises[p] # Pending =>
            /\ \A i \in PeriodCalls(p) : lCalls[i].ret = lPromises[p]
            /\ (\A r \in PeriodRounds(p) : lRounds[r].out.kind = "ok")
                  => lPromises[p] = LastRound(p).out

\* a settled busy period of two invokes and two rounds with different values
C2_Witness ==
    \E p \in 1..Len(lPromises) :
        /\ lPromises[p].kind = "ok"
        /\ Cardinality(PeriodCalls(p)) >= 2
        /\ Cardinality(PeriodRounds(p)) >= 2
        /\ \A r \in PeriodRounds(p) : lRounds[r].out.kind = "ok"
        /\ \E r \in PeriodRounds(p) : lRounds[r].out # LastRound(p).out

\* C3: every caller of a busy period is settled by the outcome of its final
\* round alone: resolved with its value if it succeeded, even if an earlier
\* round failed, rejected with its error if it failed. (Stated for periods
\* whose rounds fail with ordinary, truthy errors.)
C3_FinalRoundDecides ==
    \A p \in 1..Len(lPromises) :
        (/\ lPromises[p] # Pending
         /\ \A r \in PeriodRounds(p) : lRounds[r].out # Err(FalsyErr))
            => \A i \in PeriodCalls(p) : lCalls[i].ret = LastRound(p).out

\* C14: a latest instance never has two executions of fn in flight: only the
\* last round started can be executing; an invoke arriving while a round is
\* executing starts no round and leaves the running one alone; a round is
\* started only once every earlier round has completed.
C14_OneRoundInFlight ==
    /\ [](\A r \in 1..Len(lRounds) :
            lRounds[r].out = Pending
                => r = Len(lRounds) /\ lPending = lRounds[r].promise)
    /\ [][(lPending # 0 /\ Len(lCalls') = Len(lCalls) + 1)
            => /\ lRounds' = lRounds
               /\ lPending' = lPending
               /\ lCurrentArgs' = lCurrentArgs
               /\ lNextArgs' \in {NoValue, lCalls'[Len(lCalls')].args}]_vars

\* an invoke arrived during a round, and its round is running after the first
\* round of the period completed
C14_Witness ==
    \E i \in 1..Len(lCalls) :
        /\ ~lCalls[i].driver
        /\ lCalls[i].round < Len(lRounds)
        /\ lRounds[lCalls[i].round].promise = lPending
        /\ lRounds[Len(lRounds)].out = Pending

\* the invokes that arrived while round r was executing
Arrivals(r) == {i \in 1..Len(lCalls) : ~lCalls[i].driver /\ lCalls[i].round = r}

\* C15: with areArgsEqual, an invoke that arrives during a round with
\* arguments equal to the running round's leaves no next round scheduled; in a
\* busy period whose invokes all have equal arguments fn runs exactly once and
\* every invoke resolves to that execution's result.
C15_EqualArgsOneRound ==
    /\ [](lUseEq =>
            \A p \in 1..Len(lPromises) :
                (\A i, j \in PeriodCalls(p) : lCalls[i].args = lCalls[j].args)
                    => /\ Cardinality(PeriodRounds(p)) = 1
                       /\ \A i \in PeriodCalls(p) :
                             /\ lCalls[i].ret = lPromises[p]
                             /\ LastRound(p).out.kind = "ok"
                                   => lCalls[i].ret = LastRound(p).out)
    /\ [][(/\ lUseEq
            /\ lPending # 0
            /\ Len(lCalls') = Len(lCalls) + 1
            /\ lCalls'[Len(lCalls')].args = lCurrentArgs)
            => lNextArgs' = NoValue /\ lRounds' = lRounds]_vars

\* two invokes with equal arguments were resolved by one execution of fn
C15_Witness ==
    /\ lUseEq
    /\ \E p \in 1..Len(lPromises) :
          /\ lPromises[p].kind = "ok"
          /\ Cardinality(PeriodCalls(p)) >= 2
          /\ \A i, j \in PeriodCalls(p) : lCalls[i].args = lCalls[j].args
          /\ \A i \in PeriodCalls(p) : lCalls[i].ret = LastRound(p).out

\* C16: with the default updateArgs and no areArgsEqual, a round during which
\* invokes arrived is followed by exactly one round of the same busy period,
\* run with the arguments of the last of them; no other round is run, so the
\* arguments of the intermediate invokes are never passed to fn.
C16_OneFollowUpWithLatestArgs ==
    ~lUseEq =>
        \A r \in 1..Len(lRounds) :
            /\ (Arrivals(r) # {} /\ lRounds[r].out = Pending)
                  => lNextArgs = lCalls[Max(Arrivals(r))].args
            /\ (Arrivals(r) # {} /\ lRounds[r].out # Pending)
                  => /\ r < Len(lRounds)
                     /\ lRounds[r + 1].promise = lRounds[r].promise
                     /\ lRounds[r + 1].args = lCalls[Max(Arrivals(r))].args
            /\ Arrivals(r) = {}
                  => \/ r = Len(lRounds)
                     \/ lRounds[r + 1].promise # lRounds[r].promise

\* three back-to-back invokes ran fn exactly twice; the arguments of the
\* second differ from those of both rounds
C16_Witness ==
    /\ ~lUseEq
    /\ \E p \in 1..Len(lPromises) :
          /\ lPromises[p] # Pending
          /\ Cardinality(PeriodCalls(p)) = 3
          /\ Cardinality(PeriodRounds(p)) = 2
          /\ Cardinality(Arrivals(Max(PeriodRounds(p)) - 1)) = 2
          /\ \E i \in PeriodCalls(p) :
                \A r \in PeriodRounds(p) : lRounds[r].args # lCalls[i].args

\* the calls made to updateArgs by the invokes of lCalls, in order, each with
\* the round that was executing
UpdateLog ==
    LET busy == SelectSeq(lCalls, LAMBDA c : ~c.driver)
    IN  [k \in 1..Len(busy) |->
            [current |-> busy[k].update.current,
             middle |-> busy[k].update.middle,
             latest |-> busy[k].update.latest,
             next |-> busy[k].update.next,
             round |-> busy[k].round]]

\* the arguments of the invokes that arrived during the round of update k
\* before it, in arrival order
MiddleBefore(k) ==
    LET earlier == SelectSeq(SubSeq(UpdateLog, 1, k - 1),
                             LAMBDA u : u.round = UpdateLog[k].round)
    IN  [j \in 1..Len(earlier) |-> earlier[j].latest]

\* C17: every call of updateArgs receives as middle the arguments of the
\* invokes made between the current round's invoke and the arriving one, in
\* arrival order (empty only for the first arrival of a round).
C17_MiddleListsIntermediateCalls ==
    \A k \in 1..Len(UpdateLog) : UpdateLog[k].middle = MiddleBefore(k)

\* C18 as stated: provided every execution of fn terminates, every invoke
\* eventually settles, a superseded one included.
C18_EveryInvokeSettles ==
    \A i \in 1..MaxFairInvokes :
        (Len(lCalls) >= i) ~> (Len(lCalls) >= i /\ lCalls[i].ret # Pending)

\* a step in which an invoke arrives and changes the next round
Arrival == \E a \in Args : LatestInvoke(a) \/ LatestArrive(a)

\* C18 amended: provided every execution of fn terminates and invokes do not
\* keep arriving forever, every invoke eventually settles, a superseded one
\* included: from some point on no invoke is pending.
C18_SettlesOnceArrivalsStop ==
    \/ []<><<Arrival>>_vars
    \/ <>[](\A i \in 1..Len(lCalls) : lCalls[i].ret # Pending)

\* an invoke whose arguments were superseded by a later arrival has settled
C18_Witness ==
    \E i \in 1..Len(lCalls) :
        /\ ~lCalls[i].driver
        /\ i # Max(Arrivals(lCalls[i].round))
        /\ lCalls[i].ret # Pending

\* ---- debounce ----
\* the invokes that wait on promise p and the executions started for it
DebCallers(p) == {i \in 1..Len(dCalls) : dCalls[i].promise = p}
DebExecsOf(p) == {e \in 1..Len(dExecs) : dExecs[e].link = p}

\* C4: the invokes that arrive on a busy instance before the next execution
\* starts share one queued execution: fn is run once for them, with the
\* arguments of the last of them, the arguments of the earlier ones are never
\* passed to fn, and all of them settle with that execution's outcome (in
\* the job that follows the one in which the execution settled).
C4_QueuedShareOneExecution ==
    \A p \in 1..Len(dPromises) :
        LET last == Max(DebCallers(p)) IN
        /\ Cardinality(DebExecsOf(p)) <= 1
        /\ \A e \in DebExecsOf(p) :
              /\ dExecs[e].args = dCalls[last].args
              /\ \A i \in DebCallers(p) :
                    dCalls[i].ret = IF dExecs[e].delivered
                                    THEN dExecs[e].out ELSE Pending
        /\ DebExecsOf(p) = {} =>
              /\ dNext = [args |-> dCalls[last].args, promise |-> p]
              /\ \A i \in DebCallers(p) : dCalls[i].ret = Pending
        /\ \A i \in DebCallers(p) \ {last} :
              \A e \in 1..Len(dExecs) : dExecs[e].args # dCalls[i].args

\* C19: with interval <= 0 debounce is a pure pass-through: no invoke is
\* queued, every invoke calls fn at once with its own arguments and receives
\* the outcome of that execution.
C19_NoIntervalPassesThrough ==
    dInterval <= 0 =>
        /\ dNext = NoNext
        /\ \A i \in 1..Len(dCalls) :
              /\ dCalls[i].exec # 0
              /\ dExecs[dCalls[i].exec].args = dCalls[i].args
              /\ dCalls[i].ret = dExecs[dCalls[i].exec].out

\* C20: with disregardExecutionTime set, when the timer of an execution fires
\* and a call is queued, the queued call starts executing in that step,
\* whether or not the execution that set the timer has completed.
C20_TimerStartsQueuedCall ==
    [][\A e \in 1..Len(dExecs) :
          (/\ dDisregard
           /\ ~dExecs[e].fired
           /\ dExecs'[e].fired
           /\ dNext # NoNext)
              => /\ Len(dExecs') = Len(dExecs) + 1
                 /\ dExecs'[Len(dExecs')].args = dNext.args
                 /\ dExecs'[Len(dExecs')].link = dNext.promise
                 /\ dExecs'[Len(dExecs')].out \in SyncOutcomes
                 /\ dExecs'[e].out = dExecs[e].out
                 /\ dNext' = NoNext]_vars

\* two executions of fn are in flight: the queued call was started by the
\* timer of an execution that has not completed
C20_Witness ==
    /\ dDisregard
    /\ \E e, f \in 1..Len(dExecs) :
          /\ e < f
          /\ dExecs[e].fired /\ dExecs[e].out = Pending
          /\ dExecs[f].link # 0 /\ dExecs[f].out = Pending

\* two invokes queued together, their execution has settled and they have
\* its outcome
C4_Witness ==
    \E p \in 1..Len(dPromises) :
        /\ Cardinality(DebCallers(p)) >= 2
        /\ \E e \in DebExecsOf(p) :
              /\ dExecs[e].out # Pending
              /\ \A i \in DebCallers(p) : dCalls[i].ret = dExecs[e].out

\* C21: an invoke on an idle debounce instance calls fn within that invoke,
\* with the caller's own arguments and before any timer or continuation runs,
\* and the caller receives the outcome of that execution.
C21_IdleInvokeRunsAtOnce ==
    /\ [](\A i \in 1..Len(dCalls) :
            dCalls[i].exec # 0
                => /\ dCalls[i].exec <= Len(dExecs)
                   /\ dExecs[dCalls[i].exec].args = dCalls[i].args
                   /\ dExecs[dCalls[i].exec].link = 0
                   /\ dCalls[i].ret = dExecs[dCalls[i].exec].out)
    /\ [][(dIdle /\ Len(dCalls') = Len(dCalls) + 1)
            => /\ Len(dExecs') = Len(dExecs) + 1
               /\ dCalls'[Len(dCalls')].exec = Len(dExecs')
               /\ dExecs'[Len(dExecs')].args = dCalls'[Len(dCalls')].args
               /\ dExecs'[Len(dExecs')].out \in SyncOutcomes
               /\ ~dExecs'[Len(dExecs')].fired
               /\ dNext' = dNext]_vars

\* an instance that went back to idle was invoked again: the invoke ran fn
\* itself and has received its outcome
C21_Witness ==
    \E i \in 2..Len(dCalls) :
        /\ dCalls[i].exec > 1
        /\ dCalls[i].ret # Pending
        /\ dCalls[i].ret = dExecs[dCalls[i].exec].out

\* C22: with interval > 0, in both modes, fn is not started again until the
\* timer set at its last start has fired, and so not before interval has
\* passed since that start.
C22_StartsAnIntervalApart ==
    /\ [](dInterval > 0 =>
            \A e \in 1..Len(dExecs) - 1 :
                dExecs[e].fired /\ dExecs[e].age >= dInterval)
    /\ [][(dInterval > 0 /\ dExecs # <<>> /\ Len(dExecs') > Len(dExecs))
            => /\ dExecs'[Len(dExecs)].fired
               /\ dExecs[Len(dExecs)].age >= dInterval]_vars

\* fn has just been started a second time, from the queue, once the first
\* execution had completed and its timer had fired
C22_Witness ==
    /\ dInterval > 0
    /\ Len(dExecs) >= 2
    /\ dExecs[2].link # 0
    /\ dExecs[1].out # Pending
    /\ dExecs[2].age = 0

\* execution e reaches scheduleNext in this step: its timer fires or, in the
\* default mode, its fn completes, the other of the two having happened
DebSchedules(e) ==
    /\ dExecs[e].done
    /\ \/ ~dExecs[e].fired /\ dExecs'[e].fired
       \/ ~dDisregard /\ dExecs[e].out = Pending /\ dExecs'[e].out # Pending

\* C23: provided every execution of fn terminates and timers fire, every
\* invoke eventually settles, even when invokes keep arriving; a queued call
\* is started by the next scheduleNext, and until then later arrivals join it
\* without replacing its promise.
C23_NotStarved ==
    /\ \A i \in 1..MaxFairInvokes :
          (Len(dCalls) >= i) ~> (Len(dCalls) >= i /\ dCalls[i].ret # Pending)
    /\ [][dNext # NoNext =>
            \/ dNext'.promise = dNext.promise
               /\ \A e \in 1..Len(dExecs) : ~DebSchedules(e)
            \/ /\ dNext' = NoNext
               /\ Len(dExecs') = Len(dExecs) + 1
               /\ dExecs'[Len(dExecs')].link = dNext.promise
               /\ dExecs'[Len(dExecs')].args = dNext.args]_vars

\* a queued invoke has settled although callers beyond dCalls joined its
\* queued call: fn ran with arguments that are none of the followed invokes'
C23_Witness ==
    \E i \in 1..Len(dCalls), e \in 1..Len(dExecs) :
        /\ dCalls[i].promise # 0
        /\ dExecs[e].link = dCalls[i].promise
        /\ dExecs[e].args > MaxFairInvokes
        /\ dCalls[i].ret # Pending

\* ---- debounce and batch ----
\* at most one of the executions runs fn, and each started only after the
\* timer of the one before had fired and its fn had completed
NoOverlap(execs) ==
    /\ Cardinality({e \in 1..Len(execs) : execs[e].out = Pending}) <= 1
    /\ \A e \in 2..Len(execs) :
          execs[e - 1].fired /\ execs[e - 1].out # Pending

\* C5: with disregardExecutionTime unset no two executions of fn by one
\* instance overlap; the next one starts only after the interval timer of the
\* previous start has fired and the previous execution has completed.
C5_NoOverlap ==
    /\ ~dDisregard => NoOverlap(dExecs)
    /\ ~bDisregard => NoOverlap(bExecs)

\* a queued call has been started by an instance in the default mode, of
\* debounce (for a promise) or of batch (for queued calls)
C5_Witness ==
    \/ /\ ~dDisregard
       /\ \E e \in 2..Len(dExecs) : dExecs[e].link # 0
    \/ /\ ~bDisregard
       /\ \E e \in 2..Len(bExecs) : bExecs[e].next # <<>>

\* ---- batch ----
\* the invoke that holds promise p
BatchCaller(p) == CHOOSE i \in 1..Len(bCalls) : bCalls[i].promise = p
\* the executions started by scheduleNext for two or more queued calls
BatchedExecs == {e \in 1..Len(bExecs) : Len(bExecs[e].next) >= 2}

\* C6: when the trailing scheduling step finds n >= 2 queued calls, batch is
\* called exactly once with the n argument tuples in arrival order, fn is run
\* exactly once with the merged input and, with no unbatch, all n callers
\* resolve to that single output (in the job that follows the one in which
\* the execution settled, and not before).
C6_BatchedOnce ==
    /\ \A k \in 1..Len(bBatchLog) : Len(bBatchLog[k]) >= 2
    /\ \A e \in BatchedExecs :
          LET next == bExecs[e].next IN
          /\ Cardinality({k \in 1..Len(bBatchLog) : bBatchLog[k] = Inputs(next)}) = 1
          /\ \A i \in 1..Len(next) :
                next[i].input = bCalls[BatchCaller(next[i].promise)].args
          /\ \A i, j \in 1..Len(next) :
                i < j => BatchCaller(next[i].promise) < BatchCaller(next[j].promise)
          /\ bExecs[e].args = BatchFn(Inputs(next))
          /\ \A f \in BatchedExecs : f # e =>
                \A i \in 1..Len(next), j \in 1..Len(bExecs[f].next) :
                    next[i].promise # bExecs[f].next[j].promise
          /\ (~bUnbatch /\ bExecs[e].out.kind = "ok") =>
                \A i \in 1..Len(next) :
                    bCalls[BatchCaller(next[i].promise)].ret
                       = IF bExecs[e].delivered
                         THEN BWhole(bExecs[e].out) ELSE BPending

\* a batched execution of two or more calls has succeeded, without unbatch,
\* and its callers have been answered
C6_Witness ==
    \E e \in BatchedExecs :
        /\ ~bUnbatch
        /\ bExecs[e].delivered
        /\ bExecs[e].out.kind = "ok"
        /\ \A i \in 1..Len(bExecs[e].next) :
              bCalls[BatchCaller(bExecs[e].next[i].promise)].ret.kind = "ok"

\* is the argument tuple a among the inputs of a call of batch or unbatch?
InBatchLog(a) ==
    \E k \in 1..Len(bBatchLog) : \E j \in 1..Len(bBatchLog[k]) : bBatchLog[k][j] = a
InUnbatchLog(a) ==
    \E k \in 1..Len(bUnbatchLog) :
        \E j \in 1..Len(bUnbatchLog[k].inputs) : bUnbatchLog[k].inputs[j] = a

\* C24: an invoke on an idle batch instance calls fn within that invoke with
\* the caller's own arguments; neither batch nor unbatch is ever called for
\* it, and the caller receives the outcome of that execution.
C24_IdleInvokeRunsOwnArgs ==
    /\ [](\A i \in 1..Len(bCalls) :
            bCalls[i].exec # 0
                => /\ bCalls[i].exec <= Len(bExecs)
                   /\ bExecs[bCalls[i].exec].args = bCalls[i].args
                   /\ bExecs[bCalls[i].exec].next = <<>>
                   /\ bCalls[i].ret = BWhole(bExecs[bCalls[i].exec].out)
                   /\ ~InBatchLog(bCalls[i].args)
                   /\ ~InUnbatchLog(bCalls[i].args))
    /\ [][(bIdle /\ Len(bCalls') = Len(bCalls) + 1)
            => /\ Len(bExecs') = Len(bExecs) + 1
               /\ bCalls'[Len(bCalls')].exec = Len(bExecs')
               /\ bExecs'[Len(bExecs')].args = bCalls'[Len(bCalls')].args
               /\ bExecs'[Len(bExecs')].out \in SyncOutcomes
               /\ bBatchLog' = bBatchLog
               /\ bUnbatchLog' = bUnbatchLog]_vars

\* an instance with unbatch that batched earlier calls went back to idle and
\* was invoked again: the invoke ran fn itself and has received its outcome
C24_Witness ==
    \E i \in 2..Len(bCalls) :
        /\ bUnbatch
        /\ bUnbatchLog # <<>>
        /\ bCalls[i].exec > 1
        /\ bCalls[i].ret.kind = "ok"

\* C25: when scheduleNext finds exactly one queued call, fn runs with that
\* call's own arguments, neither batch nor unbatch is called for it, even if
\* unbatch is supplied, and the caller receives fn's outcome unchanged.
C25_SingleQueuedRunsUnbatched ==
    \A e \in 1..Len(bExecs) :
        Len(bExecs[e].next) = 1
            => LET c == bCalls[BatchCaller(bExecs[e].next[1].promise)] IN
               /\ bExecs[e].args = c.args
               /\ c.ret = IF bExecs[e].delivered
                          THEN BWhole(bExecs[e].out) ELSE BPending
               /\ ~InBatchLog(c.args)
               /\ ~InUnbatchLog(c.args)

\* on an instance with unbatch, a call queued alone has resolved to the
\* output of fn
C25_Witness ==
    \E e \in 1..Len(bExecs) :
        /\ bUnbatch
        /\ Len(bExecs[e].next) = 1
        /\ bExecs[e].out.kind = "ok"
        /\ bExecs[e].delivered
        /\ bCalls[BatchCaller(bExecs[e].next[1].promise)].ret = BWhole(bExecs[e].out)

\* the calls of unbatch made with the inputs of the queued calls of execution e
UnbatchCallsOf(e) ==
    {k \in 1..Len(bUnbatchLog) : bUnbatchLog[k].inputs = Inputs(bExecs[e].next)}

\* C26: with unbatch supplied and n >= 2 queued calls, once fn has returned
\* the output of the batched execution unbatch is called exactly once, with
\* the n inputs in arrival order and that output, and the i-th queued caller
\* resolves to the i-th element of the list it returns (all are rejected with
\* its error if it throws instead); before, and until the job that follows
\* the one in which the execution settled, unbatch is not called for them
\* and they are pending.
C26_UnbatchedPositionally ==
    bUnbatch =>
        \A e \in BatchedExecs :
            LET next == bExecs[e].next
                caller(i) == bCalls[BatchCaller(next[i].promise)]
            IN  /\ \A i \in 1..Len(next) : next[i].input = caller(i).args
                /\ \A i, j \in 1..Len(next) :
                      i < j => BatchCaller(next[i].promise)
                                  < BatchCaller(next[j].promise)
                /\ bExecs[e].out.kind # "ok" => UnbatchCallsOf(e) = {}
                /\ ~bExecs[e].delivered =>
                      /\ UnbatchCallsOf(e) = {}
                      /\ \A i \in 1..Len(next) : caller(i).ret = BPending
                /\ (bExecs[e].out.kind = "ok" /\ bExecs[e].delivered) =>
                      /\ Cardinality(UnbatchCallsOf(e)) = 1
                      /\ \A k \in UnbatchCallsOf(e) :
                            bUnbatchLog[k].output = bExecs[e].out.v
                      /\ \/ \A i \in 1..Len(next) :
                               caller(i).ret = BShare(bExecs[e].out, i)
                         \/ \A i \in 1..Len(next) :
                               caller(i).ret =
                                  [kind |-> "err", v |-> UnbatchThrown, part |-> 0]

\* three queued calls were batched and each has resolved to its own element
\* of the list unbatch returned
C26_Witness ==
    \E e \in BatchedExecs :
        /\ bUnbatch
        /\ Len(bExecs[e].next) = 3
        /\ \A i \in 1..3 :
              bCalls[BatchCaller(bExecs[e].next[i].promise)].ret
                  = BShare(bExecs[e].out, i)
        /\ bExecs[e].out.kind = "ok"

\* C27: if the execution started for the queued calls of a round fails, every
\* caller queued for that round is rejected with that same error (in the job
\* that follows the one in which the execution settled), and fn is not run
\* again for any of them: no other execution is started for their promises
\* or with their arguments.
C27_FailureRejectsWholeRound ==
    \A e \in 1..Len(bExecs) :
        bExecs[e].out.kind = "err" =>
            \A i \in 1..Len(bExecs[e].next) :
                LET p == bExecs[e].next[i].promise
                    c == bCalls[BatchCaller(p)]
                IN  /\ c.ret = IF bExecs[e].delivered
                               THEN BWhole(bExecs[e].out) ELSE BPending
                    /\ bPromises[p].n = IF bExecs[e].delivered THEN 1 ELSE 0
                    /\ \A f \in 1..Len(bExecs) : f # e =>
                          /\ QueuedAt(f, p) = 0
                          /\ bExecs[f].args # c.args

\* the batched execution of two or more queued calls failed and all of them
\* are rejected
C27_Witness ==
    \E e \in BatchedExecs :
        /\ bExecs[e].out.kind = "err"
        /\ \A i \in 1..Len(bExecs[e].next) :
              bCalls[BatchCaller(bExecs[e].next[i].promise)].ret.kind = "err"

\* no execution of fn, no interval timer and no continuation of a
\* scheduleNext is outstanding
BatchQuiescent ==
    \A e \in 1..Len(bExecs) :
        bExecs[e].fired /\ bExecs[e].out # Pending /\ bExecs[e].delivered

\* C7: every call queued on a batch instance is settled exactly once and none
\* is left pending forever, whatever fn, batch and unbatch do: no promise is
\* settled twice, and with every execution finished, every timer fired and
\* every job run no call is still pending.
C7_EveryCallSettledOnce ==
    /\ \A p \in 1..Len(bPromises) :
          /\ bPromises[p].n <= 1
          /\ bPromises[p].n = 1 <=> bCalls[BatchCaller(p)].ret # BPending
    /\ BatchQuiescent => \A i \in 1..Len(bCalls) : bCalls[i].ret # BPending

\* the clients holding a guard of kind k
RwHolders(k) ==
    {c \in RwClientIds : rwClients[c].st = "held" /\ rwClients[c].kind = k}

\* C29: at no time are two write guards held, nor a write guard together
\* with a read guard; read guards may be held together in any number
C29_ReadersXorWriter ==
    /\ Cardinality(RwHolders("write")) <= 1
    /\ RwHolders("write") # {} => RwHolders("read") = {}
    /\ rwWriterActive <=> RwHolders("write") # {}
    /\ rwActiveReaders = Cardinality(RwHolders("read"))
\* every client holds a read guard at the same time, one of them after
\* having waited for a writer
C29_Witness ==
    /\ RwHolders("read") = RwClientIds
    /\ \E c \in RwClientIds : rwClients[c].queued

\* the position of client c in the queue, 0 when it is not waiting
RwPosition(c) ==
    IF \E i \in 1..Len(rwQueue) : rwQueue[i].client = c
    THEN CHOOSE i \in 1..Len(rwQueue) : rwQueue[i].client = c
    ELSE 0
\* client c is handed its guard in this step
RwGranted(c) == rwClients[c].st # "held" /\ rwClients'[c].st = "held"
\* a guard is handed to a new request only when nobody waits, and to a
\* waiting request only together with or after the requests ahead of it; a
\* write guard only when no read guard remains
RwGrantedInOrder ==
    \A c \in RwClientIds :
       RwGranted(c) =>
          /\ rwClients[c].st = "idle" => rwQueue = <<>>
          /\ rwClients[c].st = "waiting" =>
                \A i \in 1..(RwPosition(c) - 1) :
                   rwClients'[rwQueue[i].client].st = "held"
          /\ rwClients'[c].kind = "write" =>
                \A d \in RwClientIds \ {c} : rwClients'[d].st # "held"
RwWaitingWriter(c) ==
    rwClients[c].st = "waiting" /\ rwClients[c].kind = "write"
\* C30: guards are granted in request order (a write waits for the reads
\* that hold or precede it, a read that arrived behind a waiting write is
\* not granted before it), so when every guard is eventually released a
\* waiting writer is eventually granted, whatever reads keep arriving
C30_FifoAndWriterProgress ==
    /\ [][RwGrantedInOrder]_vars
    /\ \A c \in RwClientIds :
          RwWaitingWriter(c) ~> (rwClients[c].st = "held")
\* a writer that had to wait holds its guard, and a read that arrived while
\* it waited or held is still in the queue
C30_Witness ==
    \E c \in RwHolders("write") :
       /\ rwClients[c].queued
       /\ rwQueue # <<>>
       /\ Head(rwQueue).kind = "read"

\* how many times v occurs in the sequence s
Occurrences(s, v) == Cardinality({i \in 1..Len(s) : s[i] = v})
\* the operation done in this step
ErcOp(op) ==
    /\ Len(ercLog') = Len(ercLog) + 1
    /\ ercLog'[Len(ercLog')].op = op

\* C31: after free() or take() the Erc is empty and a free() on an empty Erc
\* changes nothing; the external free is called at most once per value
\* given to the Erc (constructor or assign), and take() never calls it
C31_FreedAtMostOnce ==
    /\ [](\A v \in ErcValues :
            Occurrences(ercFreeLog, v) <= Occurrences(ercGiven, v))
    /\ [][/\ ErcOp("free") \/ ErcOp("take") => ercValue' = ErcUndefined
          /\ ErcOp("take") => ercFreeLog' = ercFreeLog
          /\ ErcOp("free") /\ ercValue = ErcUndefined =>
                UNCHANGED <<ercValue, ercWeakRef, ercWeaks, ercFreeLog,
                            ercAddRefLog, ercGiven>>]_vars
\* a value was taken, a free() followed on the empty Erc, and another value
\* has been freed
C31_Witness ==
    /\ ercFreeLog # <<>>
    /\ \E i \in 1..(Len(ercLog) - 1) :
          /\ ercLog[i].op = "take" /\ ercLog[i].ret # ErcUndefined
          /\ ercLog[i + 1].op = "free"

\* C32: free(), assign() and take() leave every weak reference made so far
\* with the value undefined, and getStrong() on such a weak reference
\* yields an empty Erc without calling addRef
C32_WeaksInvalidated ==
    [][/\ ErcOp("free") \/ ErcOp("assign") \/ ErcOp("take") =>
             \A w \in 1..Len(ercWeaks) : ercWeaks'[w] = ErcUndefined
       /\ \A w \in 1..Len(ercWeaks) :
             /\ ErcOp("weakGetStrong")
             /\ ercLog'[Len(ercLog')].arg = w
             /\ ercWeaks[w] = ErcUndefined
             => /\ ercLog'[Len(ercLog')].ret = ErcUndefined
                /\ ercAddRefLog' = ercAddRefLog]_vars
\* a weak reference was obtained with a value, the Erc was then freed,
\* assigned or taken, and getStrong() on the weak reference gave an empty Erc
C32_Witness ==
    \E i, j, k \in 1..Len(ercLog) :
       /\ i < j /\ j < k
       /\ ercLog[i].op = "getWeak" /\ ercLog[i].arg # ErcUndefined
       /\ ercLog[j].op \in {"free", "assign", "take"}
       /\ ercLog[k].op = "weakGetStrong" /\ ercLog[k].arg = ercLog[i].ret
       /\ ercLog[k].ret = ErcUndefined

\* C33: the weak reference returned by getWeak() has the value the Erc has
\* at that moment
C33_WeakHasErcValue ==
    \A i \in 1..Len(ercLog) :
       ercLog[i].op = "getWeak" => ercLog[i].arg = ercLog[i].value

\* the rounds whose call of fn has started and not yet ended
SerialInFlight == {r \in 1..Len(sRounds) : sRounds[r].st = "running"}
\* C34 as stated: at most one call of fn is in flight per serial instance
C34_OneFnInFlight == Cardinality(SerialInFlight) <= 1
\* C34, amended: several calls of fn may be in flight, but at most one of
\* them is current; every other one is superseded and its checkCancel throws
C34_OneCurrentInFlight ==
    /\ Cardinality({r \in SerialInFlight : ~CheckCancelThrows(r)}) <= 1
    /\ \A r \in SerialInFlight : Superseded(r) <=> CheckCancelThrows(r)
\* three calls of fn in flight at once, the last of them current
C34_Witness ==
    /\ Cardinality(SerialInFlight) >= 3
    /\ Len(sRounds) \in SerialInFlight
    /\ ~CheckCancelThrows(Len(sRounds))

\* an execution of fn, or an interval timer, of the instance is outstanding
DebFnOutstanding == \E e \in 1..Len(dExecs) : dExecs[e].out = Pending
DebTimerOutstanding == \E e \in 1..Len(dExecs) : ~dExecs[e].fired
BatchFnOutstanding == \E e \in 1..Len(bExecs) : bExecs[e].out = Pending
BatchTimerOutstanding == \E e \in 1..Len(bExecs) : ~bExecs[e].fired
\* idle turns false in an invoke that starts an execution for its caller, and
\* true in a timer callback or fn continuation that finds nothing queued
IdleTurnsInStep ==
    /\ dIdle /\ ~dIdle' =>
          /\ Len(dCalls') = Len(dCalls) + 1
          /\ Len(dExecs') = Len(dExecs) + 1
          /\ dCalls'[Len(dCalls')].exec = Len(dExecs')
    /\ ~dIdle /\ dIdle' =>
          /\ dNext = NoNext /\ dNext' = NoNext
          /\ Len(dCalls') = Len(dCalls)
          /\ Len(dExecs') = Len(dExecs) /\ dExecs' # dExecs
    /\ bIdle /\ ~bIdle' =>
          /\ Len(bCalls') = Len(bCalls) + 1
          /\ Len(bExecs') = Len(bExecs) + 1
          /\ bCalls'[Len(bCalls')].exec = Len(bExecs')
    /\ ~bIdle /\ bIdle' =>
          /\ bScheduled = <<>> /\ bScheduled' = <<>>
          /\ Len(bCalls') = Len(bCalls)
          /\ Len(bExecs') = Len(bExecs) /\ bExecs' # bExecs
\* C35 as stated: in either mode an idle instance has no execution of fn and
\* no interval timer outstanding, and idle turns as described
C35_IdleMeansNothingOutstanding ==
    /\ [](/\ dIdle => ~DebFnOutstanding /\ ~DebTimerOutstanding
          /\ bIdle => ~BatchFnOutstanding /\ ~BatchTimerOutstanding)
    /\ [][IdleTurnsInStep]_vars
\* C35, amended: an idle instance has no interval timer outstanding and,
\* with disregardExecutionTime unset, no execution of fn either; idle turns
\* false in the invoke that starts an execution and true only when the
\* trailing scheduling step finds nothing queued
C35_IdleMeansNoTimer ==
    /\ [](/\ dIdle => /\ ~DebTimerOutstanding
                       /\ ~dDisregard => ~DebFnOutstanding
          /\ bIdle => /\ ~BatchTimerOutstanding
                       /\ ~bDisregard => ~BatchFnOutstanding)
    /\ [][IdleTurnsInStep]_vars
\* a debounce instance that disregards the execution time is idle again
\* after two executions, one of which is still running
C35_Witness ==
    /\ dIdle /\ dDisregard
    /\ Len(dExecs) >= 2
    /\ DebFnOutstanding

\* the executions whose interval timer has not fired yet
DebTimersPending == {e \in 1..Len(dExecs) : ~dExecs[e].fired}
BatchTimersPending == {e \in 1..Len(bExecs) : ~bExecs[e].fired}
\* C36: an instance has at most one interval timer pending, and an execution
\* (with its timer) starts only when every timer set before has fired
C36_TimersNeverStacked ==
    /\ [](Cardinality(DebTimersPending) <= 1
          /\ Cardinality(BatchTimersPending) <= 1)
    /\ [][/\ Len(dExecs') > Len(dExecs) =>
               /\ Len(dExecs') = Len(dExecs) + 1
               /\ \A e \in 1..Len(dExecs) : dExecs'[e].fired
          /\ Len(bExecs') > Len(bExecs) =>
               /\ Len(bExecs') = Len(bExecs) + 1
               /\ \A e \in 1..Len(bExecs) : bExecs'[e].fired]_vars
\* a batch instance that disregards the execution time: the first execution
\* is still running, its timer has fired, and the timer of the third is
\* the only one pending
C36_Witness ==
    /\ bDisregard
    /\ Len(bExecs) >= 3
    /\ bExecs[1].out = Pending
    /\ BatchTimersPending = {Len(bExecs)}

\* a caller of the instance has not been answered yet
DebCallerWaits == \E i \in 1..Len(dCalls) : dCalls[i].ret = Pending
\* an execution has settled and the promise of the calls queued for it is
\* still to be settled by the reaction then(resolve, reject)
DebAnswerOutstanding == DebJobs # {}
BatchCallerWaits == \E i \in 1..Len(bCalls) : bCalls[i].ret = BPending
\* an execution has settled and the calls queued for it are still to be
\* answered by the scheduleNext that awaits it
BatchAnswerOutstanding ==
    \E e \in 1..Len(bExecs) : bExecs[e].out # Pending /\ ~bExecs[e].delivered
\* C37: an idle instance has nothing queued, and no caller waits on an
\* instance that has neither a timer nor an execution left to serve it
C37_IdleHasNothingQueued ==
    /\ dIdle => dNext = NoNext
    /\ bIdle => bScheduled = <<>>
    /\ DebCallerWaits =>
          DebTimerOutstanding \/ DebFnOutstanding \/ DebAnswerOutstanding
    /\ BatchCallerWaits =>
          BatchTimerOutstanding \/ BatchFnOutstanding \/ BatchAnswerOutstanding

\* the executions that carry the arguments of the i-th invoke: the one its
\* invoke started, or the one started for the queued calls it was among
BatchCarriers(i) ==
    {e \in 1..Len(bExecs) :
        \/ bCalls[i].exec = e /\ bExecs[e].args = bCalls[i].args
        \/ /\ bCalls[i].promise # 0
           /\ QueuedAt(e, bCalls[i].promise) # 0
           /\ bExecs[e].next[QueuedAt(e, bCalls[i].promise)].input
                 = bCalls[i].args
           /\ bExecs[e].args = IF Len(bExecs[e].next) > 1
                               THEN BatchFn(Inputs(bExecs[e].next))
                               ELSE bCalls[i].args}
\* the i-th invoke is still in this.scheduled
BatchQueued(i) ==
    \E k \in 1..Len(bScheduled) : bScheduled[k].promise = bCalls[i].promise
\* C38: the arguments of every invoke are either still queued or were passed
\* to fn in exactly one execution, alone or as one element of the batched
\* list; an invoke on a busy instance is not added to a round that runs
C38_EveryInputRunsOnce ==
    /\ [](\A i \in 1..Len(bCalls) :
            IF bCalls[i].promise # 0 /\ BatchQueued(i)
            THEN BatchCarriers(i) = {}
            ELSE Cardinality(BatchCarriers(i)) = 1)
    /\ [][Len(bCalls') > Len(bCalls) /\ ~bIdle => bExecs' = bExecs]_vars

\* the callers of execution e: the invoke that started it, or those that
\* hold the promise it is linked to
DebCallersOf(e) ==
    {i \in 1..Len(dCalls) :
        \/ dCalls[i].exec = e
        \/ dCalls[i].promise # 0 /\ dCalls[i].promise = dExecs[e].link}
\* execution e has failed, or fails in this step
DebFailed(e) == dExecs'[e].out.kind = "err"
\* the trailing scheduling step of execution e runs in this step: fn ends
\* after the timer has fired, or the timer fires after fn has ended (or at
\* any time when the execution time is disregarded)
DebTrailingStep(e) ==
    \/ /\ dExecs[e].out = Pending /\ dExecs'[e].out # Pending
       /\ ~dDisregard /\ dExecs[e].done
    \/ ~dExecs[e].fired /\ dExecs'[e].fired /\ dExecs[e].done
\* C39: a failed execution still schedules: its finally block has run (done
\* is set, also when fn threw at once), its trailing step starts the queued
\* call or, with nothing queued, makes the instance idle; a failure is
\* received by the callers of the failed execution only
C39_FailureStillSchedules ==
    /\ [](\A i \in 1..Len(dCalls) :
            dCalls[i].ret.kind = "err" =>
               \E e \in 1..Len(dExecs) :
                  i \in DebCallersOf(e) /\ dExecs[e].out = dCalls[i].ret)
    /\ [](\A e \in 1..Len(dExecs) :
            dExecs[e].out.kind = "err" => dExecs[e].done)
    /\ [][\A e \in 1..Len(dExecs) :
            /\ (dExecs[e].out = Pending /\ DebFailed(e)) =>
                  \A i \in 1..Len(dCalls) \ DebCallersOf(e) :
                     dCalls'[i].ret = dCalls[i].ret
            /\ (dExecs[e].out = Pending /\ DebFailed(e) /\ ~dDisregard) =>
                  dExecs'[e].done
            /\ (DebFailed(e) /\ DebTrailingStep(e)) =>
                  IF dNext # NoNext
                  THEN /\ Len(dExecs') = Len(dExecs) + 1
                       /\ dExecs'[Len(dExecs')].args = dNext.args
                       /\ dExecs'[Len(dExecs')].link = dNext.promise
                       /\ dNext' = NoNext
                  ELSE dIdle' /\ Len(dExecs') = Len(dExecs)]_vars
\* the first execution failed and its caller got the error; the call queued
\* meanwhile ran afterwards and succeeded; the instance is idle again
C39_Witness ==
    /\ dIdle /\ ~dDisregard
    /\ Len(dExecs) >= 2
    /\ dExecs[1].out.kind = "err" /\ dCalls[1].ret.kind = "err"
    /\ dExecs[2].link # 0
    /\ \E i \in DebCallersOf(2) : dCalls[i].ret.kind = "ok"

\* in the running round an arrival judged equal to the round's arguments has
\* cleared a next round scheduled by an earlier arrival, and nothing has
\* been scheduled since
LatestNextCleared ==
    /\ lUseEq
    /\ lPending # 0
    /\ lNextArgs = NoValue
    /\ \E k \in 1..Len(UpdateLog) :
          /\ UpdateLog[k].round = Len(lRounds)
          /\ UpdateLog[k].next # NoValue
          /\ UpdateLog[k].latest = UpdateLog[k].current
\* C40: when the running round completes with its next round cleared by an
\* equal arrival, no further round runs and every waiting caller, the one
\* that had scheduled the cleared round included, receives the running
\* round's result. (Stated for rounds that fail with ordinary, truthy
\* errors.)
C40_ClearedNextSharesResult ==
    [][(/\ LatestNextCleared
        /\ lRounds[Len(lRounds)].out = Pending
        /\ lRounds'[Len(lRounds)].out \notin {Pending, Err(FalsyErr)})
          => /\ Len(lRounds') = Len(lRounds)
             /\ lPending' = 0
             /\ \A i \in 1..Len(lCalls) :
                   lCalls[i].promise = lPending =>
                      lCalls'[i].ret = lRounds'[Len(lRounds)].out]_vars

====
